---- MODULE Spec2Model ----
(***************************************************************************)
(* The hiring-evaluation workflow of backend/src/graph.py: the compiled    *)
(* StateGraph (orchestrator -> {hr, tech, compliance} -> validate_state -> *)
(* synthesis -> END), its reducers, the retry decorator around the nodes,  *)
(* the consistency validator of backend/src/state.py and the entry point   *)
(* run_hiring_workflow.                                                    *)
(*                                                                         *)
(* Data that the properties below do not read (prompt texts, observation   *)
(* bodies, scores) is abstracted: a rubric, a working memory and a review  *)
(* are records carrying the role label and the node attempt that produced  *)
(* them.                                                                   *)
(***************************************************************************)
EXTENDS Integers, Sequences, FiniteSets, TLC

VARIABLES
    job_description,      \* run input: "" or a text
    resume,               \* run input: "" or a text
    settings,             \* get_settings(): [enable_product_agent : BOOLEAN]
    rubric,               \* state["rubric"]: None or a rubric
    panel_reviews,        \* state["panel_reviews"]: sequence of reviews
    agent_working_memory, \* state["agent_working_memory"]: role key -> memory
    synthesis_out,        \* disagreements, decision_packet, interview_plan: None or a record
    active,               \* the nodes of the current superstep of the graph
    graph_done,           \* the graph reached END
    pc,                   \* per node: "idle", "run", "pass1", "pass2", "done", "raised"
    attempt,              \* per node: the retry wrapper's loop variable
    calls,                \* per node: number of invocations of the node function
    generations,          \* per reviewer node: llm.invoke calls made, counted where a
                          \* reviewer node is run on its own
    waits,                \* per node: the delays slept by the retry wrapper, in order
    last_exception,       \* per node: the retry wrapper's last_exception
    failures,             \* per node: number of invocations that raised
    raised,               \* per node: the exception that left the node, or None
    working_memory,       \* per reviewer node: the local of pass 1 handed to pass 2
    writes,               \* per node: the state update the node returned, or None
    done_order,           \* nodes of the current superstep in completion order
    runs,                 \* per node: number of times the graph scheduled the node
    seen_at_start,        \* per node: the nodes that had completed when it was scheduled
    run,                  \* run_hiring_workflow: "running", "returned", "raised"
    result,               \* what run_hiring_workflow returned, or None
    error,                \* the exception run_hiring_workflow raised, or None
    job,                  \* the entry of the evaluation job in jobs_store, or None
    call,                 \* a direct call of a pure function: its arguments
    ret                   \* ... and what it returned, or None

vars == <<job_description, resume, settings, rubric, panel_reviews,
          agent_working_memory, synthesis_out, active, graph_done, pc, attempt,
          calls, generations, waits, last_exception, failures, raised,
          working_memory, writes, done_order, runs, seen_at_start, run, result,
          error, job, call, ret>>

-----------------------------------------------------------------------------
(* Optional values: None is the empty sequence, a present value v is <<v>>. *)

NONE == <<>>

Some(v) == <<v>>

IsNone(x) == x = <<>>

Get(x) == x[1]

EmptyMap == [k \in {} |-> NONE]

-----------------------------------------------------------------------------
(* Roles and nodes *)

\* VALID_AGENT_ROLES of validate_panel_memory_consistency
VALID_AGENT_ROLES == {"HR", "Tech", "Product", "Compliance"}

\* the nodes added to the StateGraph
Nodes == {"orchestrator", "hr_agent", "tech_agent", "compliance_agent",
          "validate_state", "synthesis"}

PanelNodes == {"hr_agent", "tech_agent", "compliance_agent"}

\* the role literal each reviewer module compares against and writes under
NodeRole(n) ==
    CASE n = "hr_agent" -> "HR"
      [] n = "tech_agent" -> "Tech"
      [] n = "compliance_agent" -> "Compliance"

\* retry_on_failure() defaults
max_attempts == 3

backoff_base == 1

\* the rubric's category names, and a name outside the rubric
RubricCategories == {"A", "B"}

OffRubricCategory == "C"

-----------------------------------------------------------------------------
(* Exceptions.  node and attempt identify the exception object: which      *)
(* invocation of which node function raised it.                            *)

Exc(type, msg, n, k) == [type |-> type, msg |-> msg, node |-> n, attempt |-> k]

\* messages of the input checks of the nodes
InputErrorMsgs == {"job_description is required and must be a non-empty string",
                   "resume is required and must be a non-empty string",
                   "Resume is missing from state",
                   "Rubric is missing from state",
                   "Rubric is required for synthesis",
                   "Panel reviews are required for synthesis"}

\* `except ValueError` catches ValueError and pydantic's ValidationError
IsValueError(type) == type \in {"ValueError", "ValidationError"}

-----------------------------------------------------------------------------
(* The generation gateway: llm.invoke(prompt) either raises or returns a   *)
(* value of the requested schema.  Each is the set of possible outcomes.   *)

LlmRaises == [raises |-> TRUE]

LlmReturns(v) == [raises |-> FALSE, value |-> v]

\* get_structured_llm(Rubric).invoke: "invalid" is a ValidationError of the
\* Rubric schema, "utility" a ValueError of the llm utility, "other" any
\* other exception
LlmRubric(k) ==
    {[raises |-> TRUE, how |-> h] : h \in {"invalid", "utility", "other"}}
    \cup {[raises |-> FALSE, how |-> "value",
           value |-> [categories |-> RubricCategories, attempt |-> k]]}

\* get_structured_llm(WorkingMemory).invoke
LlmWorkingMemory(k) ==
    {LlmRaises}
    \cup {LlmReturns([agent_role |-> r, categories |-> c, attempt |-> k]) :
            r \in VALID_AGENT_ROLES,
            c \in {{"A"}, {"A", OffRubricCategory}}}

\* get_structured_llm(AgentReview).invoke.  synthesizable abstracts whether
\* the review's texts let synthesis build its packet and plan.
LlmAgentReview(k, wm) ==
    {LlmRaises}
    \cup {LlmReturns([agent_role |-> r, categories |-> c, attempt |-> k,
                      memory_attempt |-> wm.attempt, synthesizable |-> b]) :
            r \in VALID_AGENT_ROLES,
            c \in {RubricCategories, {"A"}},
            b \in BOOLEAN}

\* faulty variant: the observation categories are not compared with the rubric
validate_against_rubric_unchecked(wm, rb) == TRUE

\* WorkingMemory.validate_against_rubric
validate_against_rubric(wm, rb) == wm.categories \subseteq rb.categories

\* AgentReview.validate_rubric_category_coverage
validate_rubric_category_coverage(review, expected) == review.categories = expected

-----------------------------------------------------------------------------
(* State schema with reducers (AnnotatedHiringWorkflowState)               *)

\* faulty variant: the field without its reducer, the update replaces the list
operator_add_replace(existing, new) == new

\* operator.add on lists, the reducer of panel_reviews
operator_add(existing, new) == existing \o new

\* faulty variant: dict.update, the new entry overwrites the existing one
merge_agent_memory_overwrite(existing, new) ==
    LET merged == IF IsNone(existing) THEN EmptyMap ELSE Get(existing)
        items  == IF IsNone(new) THEN EmptyMap ELSE Get(new)
    IN  [agent_role \in DOMAIN merged \cup DOMAIN items |->
            IF agent_role \in DOMAIN items THEN items[agent_role]
                                           ELSE merged[agent_role]]

\* the reducer of agent_working_memory.  existing and new are optional maps
\* (`existing.copy() if existing else {}`, `(new or {}).items()`).
merge_agent_memory(existing, new) ==
    LET merged == IF IsNone(existing) THEN EmptyMap ELSE Get(existing)
        items  == IF IsNone(new) THEN EmptyMap ELSE Get(new)
    IN  [agent_role \in DOMAIN merged \cup DOMAIN items |->
            IF agent_role \in DOMAIN merged THEN merged[agent_role]
                                            ELSE items[agent_role]]

\* A node's return value: a partial state update; None marks an absent key.
Update(rb, reviews, memory, synth) ==
    [rubric |-> rb, panel_reviews |-> reviews, agent_working_memory |-> memory,
     synthesis_out |-> synth]

EmptyUpdate == Update(NONE, NONE, NONE, NONE)

\* The graph state as a record.
StateRec == [rubric |-> rubric, panel_reviews |-> panel_reviews,
             agent_working_memory |-> agent_working_memory,
             synthesis_out |-> synthesis_out]

\* faulty variant: every field is replaced by what the update holds for it,
\* the empty value where the update has no such key
ApplyUpdate_overwriting(st, u) ==
    [rubric |-> u.rubric,
     panel_reviews |-> IF IsNone(u.panel_reviews) THEN <<>> ELSE Get(u.panel_reviews),
     agent_working_memory |->
        IF IsNone(u.agent_working_memory) THEN EmptyMap
        ELSE Get(u.agent_working_memory),
     synthesis_out |-> u.synthesis_out]

\* one update merged into the graph state: the two annotated fields through
\* their reducers, the others by replacement; a key the update does not hold
\* leaves its field alone
ApplyUpdate(st, u) ==
    [rubric |-> IF IsNone(u.rubric) THEN st.rubric ELSE u.rubric,
     panel_reviews |-> IF IsNone(u.panel_reviews) THEN st.panel_reviews
                       ELSE operator_add(st.panel_reviews, Get(u.panel_reviews)),
     agent_working_memory |->
        IF IsNone(u.agent_working_memory) THEN st.agent_working_memory
        ELSE merge_agent_memory(Some(st.agent_working_memory), u.agent_working_memory),
     synthesis_out |-> IF IsNone(u.synthesis_out) THEN st.synthesis_out
                       ELSE u.synthesis_out]

\* the updates of the nodes in `order`, merged one after the other
RECURSIVE ApplyWrites(_, _, _)
ApplyWrites(st, w, order) ==
    IF order = <<>> THEN st
    ELSE ApplyWrites(ApplyUpdate(st, Get(w[Head(order)])), w, Tail(order))

-----------------------------------------------------------------------------
(* Consistency validation (state.py, graph.py)                             *)

Returns == [raises |-> FALSE]

Raises(type, msg) == [raises |-> TRUE, type |-> type, msg |-> msg]

\* faulty variant: only the roles missing from memory are looked at
role_sets_mismatch_missing_only(missing_from_memory, extra_in_memory) ==
    missing_from_memory # {}

\* `if missing_from_memory or extra_in_memory`
role_sets_mismatch(missing_from_memory, extra_in_memory) ==
    missing_from_memory # {} \/ extra_in_memory # {}

\* faulty variant: the loop over the memory entries is left out
memory_role_mismatches_unchecked(memory) == {}

\* the entries whose WorkingMemory.agent_role differs from their key
memory_role_mismatches(memory) ==
    {memory_key \in DOMAIN memory : memory[memory_key].agent_role # memory_key}

\* faulty variant: the keys of the memory are checked before the roles of the
\* reviews, and the entries of the memory before the two sets are compared
validate_panel_memory_consistency_memory_first(reviews, memory) ==
    IF IsNone(reviews) \/ IsNone(memory) THEN Returns
    ELSE
    LET panel_agent_roles    == {Get(reviews)[i].agent_role : i \in DOMAIN Get(reviews)}
        memory_agent_roles   == DOMAIN Get(memory)
        invalid_panel_roles  == panel_agent_roles \ VALID_AGENT_ROLES
        invalid_memory_roles == memory_agent_roles \ VALID_AGENT_ROLES
        missing_from_memory  == panel_agent_roles \ memory_agent_roles
        extra_in_memory      == memory_agent_roles \ panel_agent_roles
        mismatched == memory_role_mismatches(Get(memory))
    IN  IF invalid_memory_roles # {} THEN
            Raises("state.StateValidationError",
                   [text |-> "Invalid agent roles in agent_working_memory",
                    invalid |-> invalid_memory_roles, expected |-> VALID_AGENT_ROLES])
        ELSE IF invalid_panel_roles # {} THEN
            Raises("state.StateValidationError",
                   [text |-> "Invalid agent roles in panel_reviews",
                    invalid |-> invalid_panel_roles, expected |-> VALID_AGENT_ROLES])
        ELSE IF mismatched # {} THEN
            Raises("state.StateValidationError",
                   [text |-> "WorkingMemory agent_role mismatch",
                    keys |-> mismatched])
        ELSE IF role_sets_mismatch(missing_from_memory, extra_in_memory) THEN
            Raises("state.StateValidationError",
                   [text |-> "Panel reviews and agent working memory have mismatched agent roles",
                    missing |-> missing_from_memory, extra |-> extra_in_memory,
                    panel |-> panel_agent_roles, memory |-> memory_agent_roles])
        ELSE Returns

\* state.validate_panel_memory_consistency(state); both fields are optional.
\* A message is the record of what the f-string interpolates.
validate_panel_memory_consistency(reviews, memory) ==
    IF IsNone(reviews) \/ IsNone(memory) THEN Returns
    ELSE
    LET panel_agent_roles    == {Get(reviews)[i].agent_role : i \in DOMAIN Get(reviews)}
        memory_agent_roles   == DOMAIN Get(memory)
        invalid_panel_roles  == panel_agent_roles \ VALID_AGENT_ROLES
        invalid_memory_roles == memory_agent_roles \ VALID_AGENT_ROLES
        missing_from_memory  == panel_agent_roles \ memory_agent_roles
        extra_in_memory      == memory_agent_roles \ panel_agent_roles
        mismatched == memory_role_mismatches(Get(memory))
    IN  IF invalid_panel_roles # {} THEN
            Raises("state.StateValidationError",
                   [text |-> "Invalid agent roles in panel_reviews",
                    invalid |-> invalid_panel_roles, expected |-> VALID_AGENT_ROLES])
        ELSE IF invalid_memory_roles # {} THEN
            Raises("state.StateValidationError",
                   [text |-> "Invalid agent roles in agent_working_memory",
                    invalid |-> invalid_memory_roles, expected |-> VALID_AGENT_ROLES])
        ELSE IF role_sets_mismatch(missing_from_memory, extra_in_memory) THEN
            Raises("state.StateValidationError",
                   [text |-> "Panel reviews and agent working memory have mismatched agent roles",
                    missing |-> missing_from_memory, extra |-> extra_in_memory,
                    panel |-> panel_agent_roles, memory |-> memory_agent_roles])
        ELSE IF mismatched # {} THEN
            \* the loop raises at the first mismatching entry of the dict,
            \* one of these keys
            Raises("state.StateValidationError",
                   [text |-> "WorkingMemory agent_role mismatch",
                    keys |-> mismatched])
        ELSE Returns

\* graph.validate_state_node(state)
validate_state_node(reviews, memory) ==
    IF reviews = <<>> THEN
        Raises("graph.StateValidationError",
               [text |-> "panel_reviews is empty - no agent reviews were generated"])
    ELSE IF DOMAIN memory = {} THEN
        Raises("graph.StateValidationError",
               [text |-> "agent_working_memory is empty - no working memory was extracted"])
    ELSE
        LET r == validate_panel_memory_consistency(Some(reviews), Some(memory))
        IN  IF r.raises /\ IsValueError(r.type)
            THEN Raises("graph.StateValidationError",
                        [text |-> "State consistency validation failed", cause |-> r.msg])
            ELSE r

-----------------------------------------------------------------------------
(* retry_on_failure(max_attempts=3, backoff_base=1.0)                      *)

\* faulty variant: one attempt more than max_attempts
ShouldRetry_once_more(k) == k <= max_attempts

\* `if attempt < max_attempts`: sleep and loop again
ShouldRetry(k) == k < max_attempts

\* faulty variant: the exponent off by one
Delay_exponent_attempt(k) == backoff_base * 2 ^ k

\* delay = backoff_base * (2 ** (attempt - 1))
Delay(k) == backoff_base * 2 ^ (k - 1)

\* The wrapper's except clause for node n, whose invocation raised e.  It
\* sleeps and re-enters the loop at restart, or leaves the loop and raises
\* last_exception.
RetryExcept(n, e, restart) ==
    /\ last_exception' = [last_exception EXCEPT ![n] = Some(e)]
    /\ failures' = [failures EXCEPT ![n] = @ + 1]
    /\ IF ShouldRetry(attempt[n])
         THEN /\ waits' = [waits EXCEPT ![n] = Append(@, Delay(attempt[n]))]
              /\ attempt' = [attempt EXCEPT ![n] = @ + 1]
              /\ pc' = [pc EXCEPT ![n] = restart]
              /\ UNCHANGED raised
         ELSE /\ raised' = [raised EXCEPT ![n] = last_exception'[n]]
              /\ pc' = [pc EXCEPT ![n] = "raised"]
              /\ UNCHANGED <<waits, attempt>>

\* The wrapped function returned update u: `return func(*args, **kwargs)`.
\* The wrapper's locals are gone, the node is complete and its update waits
\* for the end of the superstep.
NodeReturn(n, u) ==
    /\ writes' = [writes EXCEPT ![n] = Some(u)]
    /\ pc' = [pc EXCEPT ![n] = "done"]
    /\ done_order' = Append(done_order, n)
    /\ last_exception' = [last_exception EXCEPT ![n] = NONE]
    /\ UNCHANGED <<attempt, waits, failures, raised>>

\* An exception that leaves a node ends the superstep: invoke raises it and
\* what the other nodes of the superstep still do is discarded.
NoNodeRaised == \A m \in Nodes : pc[m] # "raised"

\* what no node step changes
UNCHANGED_run == UNCHANGED <<job_description, resume, settings, rubric,
                             panel_reviews, agent_working_memory, synthesis_out,
                             active, graph_done, runs, seen_at_start, run,
                             result, error, job, call, ret>>

-----------------------------------------------------------------------------
(* The nodes                                                               *)

\* orchestrator_node(state): what one invocation does, as an outcome
orchestrator_node(k) ==
    IF job_description = "" THEN
        {Raises("ValueError", "job_description is required and must be a non-empty string")}
    ELSE IF resume = "" THEN
        {Raises("ValueError", "resume is required and must be a non-empty string")}
    ELSE
        {CASE o.how = "invalid" -> Raises("ValueError", "LLM returned invalid rubric structure")
           [] o.how = "utility" -> Raises("ValueError", "LLM utility error")
           [] o.how = "other"   -> Raises("Exception", "Failed to generate rubric")
           [] o.how = "value"   -> [raises |-> FALSE,
                                    update |-> Update(Some(o.value), NONE, NONE, NONE)]
         : o \in LlmRubric(k)}

\* one invocation of orchestrator_node_with_retry's wrapped function
Orchestrator ==
    LET n == "orchestrator" IN
    /\ run = "running" /\ NoNodeRaised /\ n \in active /\ pc[n] = "run"
    /\ calls' = [calls EXCEPT ![n] = @ + 1]
    /\ \E o \in orchestrator_node(attempt[n]) :
          IF o.raises
          THEN /\ RetryExcept(n, Exc(o.type, o.msg, n, attempt[n]), "run")
               /\ UNCHANGED <<writes, done_order>>
          ELSE NodeReturn(n, o.update)
    /\ UNCHANGED <<working_memory, generations>>
    /\ UNCHANGED_run

\* the llm.invoke calls one pass makes: one, after the checks of resume and
\* rubric that precede it
llm_invocations == IF resume # "" /\ ~IsNone(rubric) THEN 1 ELSE 0

\* _extract_working_memory(state) of reviewer node n: its outcomes
extract_working_memory(n, k) ==
    IF resume = "" THEN {Raises("ValueError", "Resume is missing from state")}
    ELSE IF IsNone(rubric) THEN {Raises("ValueError", "Rubric is missing from state")}
    ELSE
        {IF o.raises THEN Raises("Exception", "LLM call failed")
         ELSE IF o.value.agent_role # NodeRole(n)
              THEN Raises("ValueError", "Expected agent_role of the node")
         ELSE IF ~validate_against_rubric(o.value, Get(rubric))
              THEN Raises("ValueError", "Working memory contains observation categories that do not match rubric categories")
         ELSE [raises |-> FALSE, value |-> o.value]
         : o \in LlmWorkingMemory(k)}

\* pass 1 of reviewer node n, the start of one invocation of the node
Pass1(n) ==
    /\ run = "running" /\ NoNodeRaised /\ n \in active /\ pc[n] = "pass1"
    /\ calls' = [calls EXCEPT ![n] = @ + 1]
    /\ \E o \in extract_working_memory(n, attempt[n]) :
          IF o.raises
          THEN /\ RetryExcept(n, Exc(o.type, o.msg, n, attempt[n]), "pass1")
               /\ UNCHANGED working_memory
          ELSE /\ working_memory' = [working_memory EXCEPT ![n] = Some(o.value)]
               /\ pc' = [pc EXCEPT ![n] = "pass2"]
               /\ UNCHANGED <<attempt, waits, last_exception, failures, raised>>
    /\ UNCHANGED <<writes, done_order>>
    /\ UNCHANGED_run

\* _evaluate_with_memory(state, working_memory) of reviewer node n
evaluate_with_memory(n, k, wm) ==
    IF resume = "" THEN {Raises("ValueError", "Resume is missing from state")}
    ELSE IF IsNone(rubric) THEN {Raises("ValueError", "Rubric is missing from state")}
    ELSE
        {IF o.raises THEN Raises("Exception", "LLM call failed")
         ELSE IF ~validate_rubric_category_coverage(o.value, Get(rubric).categories)
              THEN Raises("ValidationError", "Rubric category coverage validation failed")
         ELSE IF o.value.agent_role # NodeRole(n)
              THEN Raises("ValueError", "Expected agent_role of the node")
         ELSE [raises |-> FALSE, value |-> o.value]
         : o \in LlmAgentReview(k, wm)}

\* faulty variant: the memory map returned has a key for every reviewer, the
\* node's own memory under each
ReviewerUpdate_every_key(n, review, wm) ==
    Update(NONE, Some(<<review>>),
           Some([key \in {"HR", "Tech", "Compliance"} |-> wm]), NONE)

\* faulty variant: the review is returned without the memory
ReviewerUpdate_review_only(n, review, wm) ==
    Update(NONE, Some(<<review>>), NONE, NONE)

\* the update a reviewer node returns: its review, and the memory map it
\* read from its input state with its own key set
ReviewerUpdate(n, review, wm) ==
    LET existing_memory == agent_working_memory
        merged_memory ==
            [key \in DOMAIN existing_memory \cup {NodeRole(n)} |->
                IF key = NodeRole(n) THEN wm ELSE existing_memory[key]]
    IN  Update(NONE, Some(<<review>>), Some(merged_memory), NONE)

\* faulty variant: a failure of pass 2 repeats pass 2 alone, on the memory of
\* the failed attempt
Pass2_retried_alone(n) ==
    /\ run = "running" /\ NoNodeRaised /\ n \in active /\ pc[n] = "pass2"
    /\ \E o \in evaluate_with_memory(n, attempt[n], Get(working_memory[n])) :
          IF o.raises
          THEN /\ RetryExcept(n, Exc(o.type, o.msg, n, attempt[n]), "pass2")
               /\ UNCHANGED <<working_memory, writes, done_order>>
          ELSE /\ NodeReturn(n, ReviewerUpdate(n, o.value, Get(working_memory[n])))
               /\ working_memory' = [working_memory EXCEPT ![n] = NONE]
    /\ UNCHANGED calls
    /\ UNCHANGED_run

\* pass 2 of reviewer node n and the node's return
Pass2(n) ==
    /\ run = "running" /\ NoNodeRaised /\ n \in active /\ pc[n] = "pass2"
    /\ \E o \in evaluate_with_memory(n, attempt[n], Get(working_memory[n])) :
          IF o.raises
          THEN /\ RetryExcept(n, Exc(o.type, o.msg, n, attempt[n]), "pass1")
               /\ working_memory' = [working_memory EXCEPT ![n] = NONE]
               /\ UNCHANGED <<writes, done_order>>
          ELSE /\ NodeReturn(n, ReviewerUpdate(n, o.value, Get(working_memory[n])))
               /\ working_memory' = [working_memory EXCEPT ![n] = NONE]
    /\ UNCHANGED calls
    /\ UNCHANGED_run

\* faulty variant: validate_state added to the graph under the retry wrapper
ValidateState_with_retry ==
    LET n == "validate_state"
        o == validate_state_node(panel_reviews, agent_working_memory)
    IN
    /\ run = "running" /\ NoNodeRaised /\ n \in active /\ pc[n] = "run"
    /\ calls' = [calls EXCEPT ![n] = @ + 1]
    /\ IF o.raises
         THEN /\ RetryExcept(n, Exc(o.type, o.msg, n, attempt[n]), "run")
              /\ UNCHANGED <<writes, done_order>>
         ELSE NodeReturn(n, EmptyUpdate)
    /\ UNCHANGED <<working_memory, generations>>
    /\ UNCHANGED_run

\* validate_state_node, added to the graph without the retry wrapper: its
\* exception leaves the node at once
ValidateState ==
    LET n == "validate_state"
        o == validate_state_node(panel_reviews, agent_working_memory)
    IN
    /\ run = "running" /\ NoNodeRaised /\ n \in active /\ pc[n] = "run"
    /\ calls' = [calls EXCEPT ![n] = @ + 1]
    /\ IF o.raises
         THEN /\ raised' = [raised EXCEPT ![n] = Some(Exc(o.type, o.msg, n, attempt[n]))]
              /\ failures' = [failures EXCEPT ![n] = @ + 1]
              /\ pc' = [pc EXCEPT ![n] = "raised"]
              /\ UNCHANGED <<writes, done_order, attempt, waits, last_exception>>
         ELSE NodeReturn(n, EmptyUpdate)
    /\ UNCHANGED <<working_memory, generations>>
    /\ UNCHANGED_run

\* synthesis_node(state) calls no gateway: its outcome is a function of the
\* state.  The constructors of DecisionPacket and InterviewPlan reject what
\* some review contents produce.
synthesis_node(k) ==
    IF IsNone(rubric) THEN Raises("ValueError", "Rubric is required for synthesis")
    ELSE IF panel_reviews = <<>>
         THEN Raises("ValueError", "Panel reviews are required for synthesis")
    ELSE IF \E i \in DOMAIN panel_reviews : ~panel_reviews[i].synthesizable
         THEN Raises("ValidationError", "validation error building the packet or the plan")
    ELSE [raises |-> FALSE,
          update |-> Update(NONE, NONE, NONE,
                       Some([disagreements |-> "disagreements",
                             decision_packet |-> "DecisionPacket",
                             interview_plan |-> "InterviewPlan"]))]

\* one invocation of synthesis_node_with_retry's wrapped function
Synthesis ==
    LET n == "synthesis"
        o == synthesis_node(attempt[n])
    IN
    /\ run = "running" /\ NoNodeRaised /\ n \in active /\ pc[n] = "run"
    /\ calls' = [calls EXCEPT ![n] = @ + 1]
    /\ IF o.raises
         THEN /\ RetryExcept(n, Exc(o.type, o.msg, n, attempt[n]), "run")
              /\ UNCHANGED <<writes, done_order>>
         ELSE NodeReturn(n, o.update)
    /\ UNCHANGED <<working_memory, generations>>
    /\ UNCHANGED_run

-----------------------------------------------------------------------------
(* The compiled graph (create_hiring_workflow)                             *)

\* faulty variant: the Send of the compliance agent is missing
route_to_panel_agents_two(cfg) == {"hr_agent", "tech_agent"}

\* route_to_panel_agents(state): the nodes of the Send list.  The product
\* agent is only logged: its Send is commented out.
route_to_panel_agents(cfg) == {"hr_agent", "tech_agent", "compliance_agent"}

\* faulty variant: the hr agent's edge leads to synthesis, past the validation
Successors_hr_to_synthesis(n) ==
    CASE n = "orchestrator"     -> route_to_panel_agents(settings)
      [] n = "hr_agent"         -> {"synthesis"}
      [] n = "tech_agent"       -> {"validate_state"}
      [] n = "compliance_agent" -> {"validate_state"}
      [] n = "validate_state"   -> {"synthesis"}
      [] n = "synthesis"        -> {}

\* the edges: where each node's completion leads
Successors(n) ==
    CASE n = "orchestrator"     -> route_to_panel_agents(settings)
      [] n = "hr_agent"         -> {"validate_state"}
      [] n = "tech_agent"       -> {"validate_state"}
      [] n = "compliance_agent" -> {"validate_state"}
      [] n = "validate_state"   -> {"synthesis"}
      [] n = "synthesis"        -> {}

StartPc(n) == IF n \in PanelNodes THEN "pass1" ELSE "run"

\* a superstep ends when each of its nodes has returned
SuperstepComplete == \A n \in active : pc[n] = "done"

\* The end of a superstep: the updates of its nodes are merged into the
\* state, in completion order, and the successors are scheduled together.
SuperstepEnd ==
    /\ run = "running" /\ ~graph_done /\ active # {}
    /\ SuperstepComplete
    /\ LET st == ApplyWrites(StateRec, writes, done_order)
           next == UNION {Successors(n) : n \in active}
       IN  /\ rubric' = st.rubric
           /\ panel_reviews' = st.panel_reviews
           /\ agent_working_memory' = st.agent_working_memory
           /\ synthesis_out' = st.synthesis_out
           /\ active' = next
           /\ graph_done' = (next = {})
           /\ pc' = [n \in Nodes |-> IF n \in next THEN StartPc(n) ELSE pc[n]]
           /\ runs' = [n \in Nodes |-> IF n \in next THEN runs[n] + 1 ELSE runs[n]]
           /\ seen_at_start' = [n \in Nodes |->
                 IF n \in next THEN {m \in Nodes : pc[m] = "done"} ELSE seen_at_start[n]]
    /\ done_order' = <<>>
    /\ UNCHANGED <<job_description, resume, settings, attempt, calls, generations, job, waits,
                   last_exception, failures, raised, working_memory, writes,
                   run, result, error, call, ret>>

-----------------------------------------------------------------------------
(* run_hiring_workflow                                                     *)

\* faulty variant: a validation error is re-raised as it is
WorkflowExecutionErrorFor_reraise(e) ==
    IF e.type \in {"graph.StateValidationError", "state.StateValidationError"}
    THEN [type |-> e.type, prefix |-> "", msg |-> e.msg, context |-> e]
    ELSE [type |-> "WorkflowExecutionError", prefix |-> "Workflow execution failed: ",
          msg |-> e.msg, context |-> e]

\* the except clauses: every exception leaves as a WorkflowExecutionError
\* whose message embeds str(e); the raise inside the handler chains e
WorkflowExecutionErrorFor(e) ==
    [type |-> "WorkflowExecutionError",
     prefix |-> IF e.type = "graph.StateValidationError"
                THEN "State validation error: "
                ELSE "Workflow execution failed: ",
     msg |-> e.msg,
     context |-> e]

\* faulty variant: the handler logs and returns the partial state
WorkflowExcept_partial(e) ==
    /\ run' = "returned"
    /\ error' = NONE
    /\ result' = Some(StateRec)

\* what the handler leaves: nothing is returned
WorkflowExcept(e) ==
    /\ run' = "raised"
    /\ error' = Some(WorkflowExecutionErrorFor(e))
    /\ result' = NONE

UNCHANGED_graph == UNCHANGED <<job_description, resume, settings, rubric,
                               panel_reviews, agent_working_memory, synthesis_out,
                               active, graph_done, pc, attempt, calls, generations,
                               waits, last_exception, failures, raised,
                               working_memory, writes, done_order, runs,
                               seen_at_start, job, call, ret>>

\* hiring_workflow.invoke raised: the exception that left a node
RunRaise ==
    /\ run = "running"
    /\ \E n \in Nodes : pc[n] = "raised" /\ WorkflowExcept(Get(raised[n]))
    /\ UNCHANGED_graph

\* hiring_workflow.invoke returned: the summary is logged and the result
\* returned.  The summary calls .get on the DecisionPacket object, which has
\* no such attribute; the AttributeError is raised inside the try block.
RunReturn ==
    /\ run = "running" /\ graph_done
    /\ IF ~IsNone(synthesis_out)
         THEN WorkflowExcept(Exc("AttributeError",
                  "'DecisionPacket' object has no attribute 'get'", "run_hiring_workflow", 1))
         ELSE /\ run' = "returned"
              /\ result' = Some(StateRec)
              /\ error' = NONE
    /\ UNCHANGED_graph

-----------------------------------------------------------------------------
(* Specifications                                                          *)

NoCall == [op |-> "none"]

\* run_hiring_workflow(job_description, resume): initial_state and the entry
\* point of the graph
Init ==
    /\ job_description \in {"", "jd"}
    /\ resume \in {"", "cv"}
    /\ settings \in [enable_product_agent : BOOLEAN]
    /\ rubric = NONE
    /\ panel_reviews = <<>>
    /\ agent_working_memory = EmptyMap
    /\ synthesis_out = NONE
    /\ active = {"orchestrator"}
    /\ graph_done = FALSE
    /\ pc = [n \in Nodes |-> IF n = "orchestrator" THEN "run" ELSE "idle"]
    /\ attempt = [n \in Nodes |-> 1]
    /\ calls = [n \in Nodes |-> 0]
    /\ waits = [n \in Nodes |-> <<>>]
    /\ last_exception = [n \in Nodes |-> NONE]
    /\ failures = [n \in Nodes |-> 0]
    /\ raised = [n \in Nodes |-> NONE]
    /\ working_memory = [n \in PanelNodes |-> NONE]
    /\ generations = [n \in PanelNodes |-> 0]
    /\ job = NONE
    /\ writes = [n \in Nodes |-> NONE]
    /\ done_order = <<>>
    /\ runs = [n \in Nodes |-> IF n = "orchestrator" THEN 1 ELSE 0]
    /\ seen_at_start = [n \in Nodes |-> {}]
    /\ run = "running"
    /\ result = NONE
    /\ error = NONE
    /\ call = NoCall
    /\ ret = NONE

Next ==
    \/ Orchestrator
    \/ \E n \in PanelNodes : Pass1(n) /\ UNCHANGED generations
    \/ \E n \in PanelNodes : Pass2(n) /\ UNCHANGED generations
    \/ ValidateState
    \/ Synthesis
    \/ SuperstepEnd
    \/ RunRaise
    \/ RunReturn

Spec == Init /\ [][Next]_vars

-----------------------------------------------------------------------------
(* The evaluation job of the API: submit_evaluation stores it and          *)
(* schedules process_evaluation_job, which runs the workflow.              *)

\* a Job of jobs_store: its status, result and error
Job(status, job_result, job_error) ==
    [status |-> status, result |-> job_result, error |-> job_error]

\* the job is not submitted yet; the workflow has not been started
InitJob ==
    /\ job_description \in {"", "jd"}
    /\ resume \in {"", "cv"}
    /\ settings \in [enable_product_agent : BOOLEAN]
    /\ rubric = NONE
    /\ panel_reviews = <<>>
    /\ agent_working_memory = EmptyMap
    /\ synthesis_out = NONE
    /\ active = {"orchestrator"}
    /\ graph_done = FALSE
    /\ pc = [n \in Nodes |-> IF n = "orchestrator" THEN "run" ELSE "idle"]
    /\ attempt = [n \in Nodes |-> 1]
    /\ calls = [n \in Nodes |-> 0]
    /\ generations = [n \in PanelNodes |-> 0]
    /\ waits = [n \in Nodes |-> <<>>]
    /\ last_exception = [n \in Nodes |-> NONE]
    /\ failures = [n \in Nodes |-> 0]
    /\ raised = [n \in Nodes |-> NONE]
    /\ working_memory = [n \in PanelNodes |-> NONE]
    /\ writes = [n \in Nodes |-> NONE]
    /\ done_order = <<>>
    /\ runs = [n \in Nodes |-> IF n = "orchestrator" THEN 1 ELSE 0]
    /\ seen_at_start = [n \in Nodes |-> {}]
    /\ run = "idle"
    /\ result = NONE
    /\ error = NONE
    /\ job = NONE
    /\ call = NoCall
    /\ ret = NONE

UNCHANGED_state == UNCHANGED <<job_description, resume, settings, rubric,
                               panel_reviews, agent_working_memory, synthesis_out,
                               active, graph_done, pc, attempt, calls, generations,
                               waits, last_exception, failures, raised,
                               working_memory, writes, done_order, runs,
                               seen_at_start, result, error, call, ret>>

\* submit_evaluation: the job is stored as pending and the background task
\* added
SubmitEvaluation ==
    /\ IsNone(job)
    /\ job' = Some(Job("pending", NONE, NONE))
    /\ UNCHANGED run
    /\ UNCHANGED_state

\* process_evaluation_job up to its call of run_hiring_workflow
ProcessStart ==
    /\ ~IsNone(job) /\ Get(job).status = "pending" /\ run = "idle"
    /\ job' = Some(Job("processing", NONE, NONE))
    /\ run' = "running"
    /\ UNCHANGED_state

\* process_evaluation_job after the call.  An exception of the workflow is
\* caught by `except Exception`.  run_hiring_workflow is a plain function;
\* `await` applied to the dict it returns raises TypeError inside the try
\* block, before the result is normalized.
ProcessFinish ==
    /\ ~IsNone(job) /\ Get(job).status = "processing"
    /\ run \in {"returned", "raised"}
    /\ job' = IF run = "raised"
              THEN Some(Job("failed", NONE,
                            Some([prefix |-> Get(error).prefix, msg |-> Get(error).msg])))
              ELSE Some(Job("failed", NONE,
                            Some([prefix |-> "",
                                  msg |-> "object dict can't be used in 'await' expression"])))
    /\ UNCHANGED run
    /\ UNCHANGED_state

\* get_job_status: the response; the result is included only for a
\* completed job that has one
get_job_status(j) ==
    [status |-> j.status, error |-> j.error,
     result |-> IF j.status = "completed" /\ ~IsNone(j.result) THEN j.result ELSE NONE]

NextJob ==
    \/ SubmitEvaluation
    \/ ProcessStart
    \/ Next
    \/ ProcessFinish

SpecJob == InitJob /\ [][NextJob]_vars

-----------------------------------------------------------------------------
(* The checkpoint for every state the fan-in can hand it.  validate_state  *)
(* is a node of the exported graph and takes whatever panel_reviews and    *)
(* agent_working_memory the state holds (tests/test_graph/                 *)
(* test_state_validation.py feeds it mismatched ones); InitFanIn is the    *)
(* state at the start of the validate_state superstep, for every such pair.*)

MaxReviews == 2

MaxVersions == 2

\* a label outside VALID_AGENT_ROLES
NonCanonicalRole == "hr"

Labels == {"HR", "Tech", NonCanonicalRole}

SeqsUpTo(S, n) == UNION {[1..m -> S] : m \in 0..n}

MemoryOf(r, v) == [agent_role |-> r, categories |-> {"A"}, attempt |-> v]

ReviewOf(r, v) == [agent_role |-> r, categories |-> RubricCategories, attempt |-> v,
                   memory_attempt |-> v, synthesizable |-> TRUE]

ReviewLists == SeqsUpTo({ReviewOf(r, 1) : r \in Labels}, MaxReviews)

\* memory maps whose entries may carry a role other than their key
MemoryMaps ==
    UNION {{[k \in K |-> MemoryOf(g[k], 1)] : g \in [K -> Labels]} : K \in SUBSET Labels}

InitFanIn ==
    /\ job_description = "jd"
    /\ resume = "cv"
    /\ settings \in [enable_product_agent : BOOLEAN]
    /\ rubric = Some([categories |-> RubricCategories, attempt |-> 1])
    /\ panel_reviews \in ReviewLists
    /\ agent_working_memory \in MemoryMaps
    /\ synthesis_out = NONE
    /\ active = {"validate_state"}
    /\ graph_done = FALSE
    /\ pc = [n \in Nodes |-> CASE n = "validate_state" -> "run"
                              [] n = "synthesis" -> "idle"
                              [] OTHER -> "done"]
    /\ attempt = [n \in Nodes |-> 1]
    /\ calls = [n \in Nodes |-> IF n \in {"validate_state", "synthesis"} THEN 0 ELSE 1]
    /\ waits = [n \in Nodes |-> <<>>]
    /\ last_exception = [n \in Nodes |-> NONE]
    /\ failures = [n \in Nodes |-> 0]
    /\ raised = [n \in Nodes |-> NONE]
    /\ working_memory = [n \in PanelNodes |-> NONE]
    /\ generations = [n \in PanelNodes |-> 0]
    /\ job = NONE
    /\ writes = [n \in Nodes |-> NONE]
    /\ done_order = <<>>
    /\ runs = [n \in Nodes |-> IF n = "synthesis" THEN 0 ELSE 1]
    /\ seen_at_start = [n \in Nodes |->
          CASE n \in PanelNodes -> {"orchestrator"}
            [] n = "validate_state" -> {"orchestrator"} \cup PanelNodes
            [] OTHER -> {}]
    /\ run = "running"
    /\ result = NONE
    /\ error = NONE
    /\ call = NoCall
    /\ ret = NONE

\* a run from its start, or from the fan-in with any state
SpecGraph == (Init \/ InitFanIn) /\ [][Next]_vars

-----------------------------------------------------------------------------
(* Direct calls of the pure functions, arguments drawn from bounded sets   *)

\* two memories of the same role are told apart by their version
VersionedMaps ==
    UNION {{[k \in K |-> MemoryOf(k, g[k])] : g \in [K -> 1..MaxVersions]} :
             K \in SUBSET Labels}

Optional(S) == {NONE} \cup {Some(x) : x \in S}

MergeCalls == {[op |-> "merge_agent_memory", existing |-> e, new |-> n] :
                 e \in Optional(VersionedMaps), n \in Optional(VersionedMaps)}

ValidateCalls == {[op |-> "validate_panel_memory_consistency",
                   panel_reviews |-> r, agent_working_memory |-> m] :
                    r \in Optional(ReviewLists), m \in Optional(MemoryMaps)}

InitCalls ==
    /\ job_description = "jd"
    /\ resume = "cv"
    /\ settings = [enable_product_agent |-> FALSE]
    /\ rubric = NONE
    /\ panel_reviews = <<>>
    /\ agent_working_memory = EmptyMap
    /\ synthesis_out = NONE
    /\ active = {}
    /\ graph_done = FALSE
    /\ pc = [n \in Nodes |-> "idle"]
    /\ attempt = [n \in Nodes |-> 1]
    /\ calls = [n \in Nodes |-> 0]
    /\ waits = [n \in Nodes |-> <<>>]
    /\ last_exception = [n \in Nodes |-> NONE]
    /\ failures = [n \in Nodes |-> 0]
    /\ raised = [n \in Nodes |-> NONE]
    /\ working_memory = [n \in PanelNodes |-> NONE]
    /\ generations = [n \in PanelNodes |-> 0]
    /\ job = NONE
    /\ writes = [n \in Nodes |-> NONE]
    /\ done_order = <<>>
    /\ runs = [n \in Nodes |-> 0]
    /\ seen_at_start = [n \in Nodes |-> {}]
    /\ run = "idle"
    /\ result = NONE
    /\ error = NONE
    /\ call \in MergeCalls \cup ValidateCalls
    /\ ret = NONE

UNCHANGED_workflow == UNCHANGED <<job_description, resume, settings, rubric,
                                  panel_reviews, agent_working_memory,
                                  synthesis_out, active, graph_done, pc, attempt,
                                  calls, generations, waits, last_exception,
                                  failures, raised, working_memory, writes,
                                  done_order, runs, seen_at_start, run, result,
                                  error, job>>

CallMerge ==
    /\ call.op = "merge_agent_memory" /\ IsNone(ret)
    /\ ret' = Some(merge_agent_memory(call.existing, call.new))
    /\ UNCHANGED call
    /\ UNCHANGED_workflow

CallValidate ==
    /\ call.op = "validate_panel_memory_consistency" /\ IsNone(ret)
    /\ ret' = Some(validate_panel_memory_consistency(call.panel_reviews,
                                                     call.agent_working_memory))
    /\ UNCHANGED call
    /\ UNCHANGED_workflow

NextCalls == CallMerge \/ CallValidate

SpecCalls == InitCalls /\ [][NextCalls]_vars

-----------------------------------------------------------------------------
(* Synthesis (backend/src/nodes/synthesis.py) and the models it builds     *)
(* (backend/src/models/packet.py), on rubrics and reviews with their       *)
(* contents.  Here a rubric is [role_title, categories], categories a      *)
(* sequence of [name, weight, is_must_have] with the weight in hundredths; *)
(* a review is [agent_role, category_scores, top_strengths, top_risks],    *)
(* category_scores a sequence of [category_name, score].  Scores are       *)
(* integers, an average is a fraction [num, den], overall_fit_score is in  *)
(* tenths.  A dict is the sequence of its [key, value] items in insertion  *)
(* order.                                                                  *)

SetMax(S) == CHOOSE x \in S : \A y \in S : y <= x

SetMin(S) == CHOOSE x \in S : \A y \in S : x <= y

RECURSIVE Sum(_)
Sum(xs) == IF xs = <<>> THEN 0 ELSE Head(xs) + Sum(Tail(xs))

dict_keys(d) == {d[i].key : i \in DOMAIN d}

\* list(d.values())
dict_values(d) == [i \in DOMAIN d |-> d[i].value]

dict_get(d, k) == d[CHOOSE i \in DOMAIN d : d[i].key = k].value

\* d[k] = v: a present key keeps its place
dict_set(d, k, v) ==
    IF k \in dict_keys(d)
    THEN [i \in DOMAIN d |-> IF d[i].key = k THEN [key |-> k, value |-> v] ELSE d[i]]
    ELSE Append(d, [key |-> k, value |-> v])

\* the dict as a map, its insertion order forgotten
dict_as_map(d) == [k \in dict_keys(d) |-> dict_get(d, k)]

\* `for score_item in review.category_scores: if ...: ...; break`: the score
\* of the first item of that category, or None
score_for(review, category_name) ==
    LET hits == {i \in DOMAIN review.category_scores :
                    review.category_scores[i].category_name = category_name}
    IN  IF hits = {} THEN NONE
        ELSE Some(review.category_scores[SetMin(hits)].score)

\* agent_scores of _detect_disagreements after the first i reviews
RECURSIVE collect_agent_scores(_, _, _)
collect_agent_scores(category_name, reviews, i) ==
    IF i = 0 THEN <<>>
    ELSE LET agent_scores == collect_agent_scores(category_name, reviews, i - 1)
             score == score_for(reviews[i], category_name)
         IN  IF IsNone(score) THEN agent_scores
             ELSE dict_set(agent_scores, reviews[i].agent_role, Get(score))

\* Disagreement.score_delta
score_delta(agent_scores) ==
    IF agent_scores = <<>> THEN 0
    ELSE LET scores == {agent_scores[i].value : i \in DOMAIN agent_scores}
         IN  SetMax(scores) - SetMin(scores)

\* valid_roles of Disagreement.validate_agent_scores
valid_roles == {"HR", "Tech", "Product", "Compliance"}

\* faulty variant: any difference of the scores counts, also none
no_significant_disagreement_never(agent_scores) == FALSE

\* `if self.score_delta < 1`
no_significant_disagreement(agent_scores) == score_delta(agent_scores) < 1

\* Disagreement(category_name=..., agent_scores=..., reason=...,
\* resolution_approach=...): the object, or the error of validate_agent_scores
Disagreement(category_name, agent_scores, reason, resolution_approach) ==
    IF agent_scores = <<>> THEN
        Raises("ValidationError", [text |-> "disagreement must include at least one agent score",
                                   category_name |-> category_name])
    ELSE IF \E i \in DOMAIN agent_scores :
                agent_scores[i].value < 0 \/ agent_scores[i].value > 5 THEN
        Raises("ValidationError", [text |-> "Invalid score. Scores must be integers from 0 to 5.",
                                   category_name |-> category_name])
    ELSE IF no_significant_disagreement(agent_scores) THEN
        Raises("ValidationError", [text |-> "shows no significant disagreement",
                                   category_name |-> category_name])
    ELSE IF dict_keys(agent_scores) \ valid_roles # {} THEN
        Raises("ValidationError", [text |-> "Invalid agent roles in disagreement",
                                   category_name |-> category_name])
    ELSE [raises |-> FALSE,
          value |-> [category_name |-> category_name,
                     agent_scores |-> agent_scores,
                     reason |-> reason,
                     resolution_approach |-> resolution_approach,
                     score_delta |-> score_delta(agent_scores)]]

\* faulty variant: only a delta of 2 or more is a disagreement
is_disagreement_from_two(delta) == delta >= 2

\* `if delta >= 1.0`
is_disagreement(delta) == delta >= 1

\* the roles of agent_scores with this score, in the order of the dict
agents_scoring(agent_scores, score) ==
    LET at(item) == item.value = score
        items == SelectSeq(agent_scores, at)
    IN  [i \in DOMAIN items |-> items[i].key]

\* _detect_disagreements(panel_reviews, rubric) over the first i categories
\* of the rubric
RECURSIVE detect_disagreements_upto(_, _, _)
detect_disagreements_upto(reviews, rb, i) ==
    IF i = 0 THEN [raises |-> FALSE, value |-> <<>>]
    ELSE
        LET before == detect_disagreements_upto(reviews, rb, i - 1)
            category_name == rb.categories[i].name
            agent_scores == collect_agent_scores(category_name, reviews,
                                                 Len(reviews))
        IN  IF before.raises THEN before
            ELSE IF Len(agent_scores) < 2 THEN before
            ELSE
                LET scores == {agent_scores[j].value : j \in DOMAIN agent_scores}
                    max_score == SetMax(scores)
                    min_score == SetMin(scores)
                    delta == max_score - min_score
                    reason == <<[high_agents |-> agents_scoring(agent_scores, max_score),
                                 max_score |-> max_score,
                                 low_agents |-> agents_scoring(agent_scores, min_score),
                                 min_score |-> min_score,
                                 delta |-> delta]>>
                    resolution_approach ==
                        IF delta >= 2
                        THEN "Critical disagreement - requires interview validation and reference checks"
                        ELSE "Moderate disagreement - recommend targeted interview questions"
                    disagreement == Disagreement(category_name, agent_scores, reason,
                                                 resolution_approach)
                IN  IF ~is_disagreement(delta) THEN before
                    ELSE IF disagreement.raises THEN disagreement
                    ELSE [raises |-> FALSE,
                          value |-> Append(before.value, disagreement.value)]

\* _detect_disagreements(panel_reviews, rubric)
detect_disagreements(reviews, rb) ==
    detect_disagreements_upto(reviews, rb, Len(rb.categories))

\* the scores list of _calculate_weighted_average_score
scores_of_category(category_name, reviews) ==
    LET scored(i) == ~IsNone(score_for(reviews[i], category_name))
        reviews_with_score == SelectSeq([i \in DOMAIN reviews |-> i], scored)
    IN  [j \in DOMAIN reviews_with_score |->
            Get(score_for(reviews[reviews_with_score[j]], category_name))]

\* _calculate_weighted_average_score(category_name, panel_reviews): the mean
\* as a fraction, 0.0 when no review scores the category
calculate_weighted_average_score(category_name, reviews) ==
    LET scores == scores_of_category(category_name, reviews)
    IN  IF scores = <<>> THEN [num |-> 0, den |-> 1]
        ELSE [num |-> Sum(scores), den |-> Len(scores)]

\* `category_name.lower() in obs.category.lower()`.  The category names of
\* the rubrics below are single letters in one case, none part of another,
\* and an observation's category is one of them.
category_in(category_name, obs_category) == category_name = obs_category

\* faulty variant: every observation of the category is appended
enrich_disagreements_with_memory_unlimited(disagreements, memory) ==
    IF DOMAIN memory = {} THEN [raises |-> FALSE, value |-> disagreements]
    ELSE
        LET enriched(disagreement) ==
                LET has_memory(item) == item.key \in DOMAIN memory
                    items == SelectSeq(disagreement.agent_scores, has_memory)
                    context(item) ==
                        LET relevant(obs) == category_in(disagreement.category_name,
                                                         obs.category)
                            relevant_observations ==
                                SelectSeq(memory[item.key].key_observations, relevant)
                        IN  IF relevant_observations # <<>>
                            THEN [kind |-> "noted", agent_role |-> item.key,
                                  score |-> item.value,
                                  observations |->
                                      relevant_observations]
                            ELSE [kind |-> "no specific observations",
                                  agent_role |-> item.key, score |-> item.value]
                    enriched_reason ==
                        disagreement.reason
                        \o <<[kind |-> "Working Memory Context:"]>>
                        \o [i \in DOMAIN items |-> context(items[i])]
                IN  Disagreement(disagreement.category_name, disagreement.agent_scores,
                                 enriched_reason, disagreement.resolution_approach)
            results == [i \in DOMAIN disagreements |-> enriched(disagreements[i])]
            failed == {i \in DOMAIN results : results[i].raises}
        IN  IF failed # {} THEN results[SetMin(failed)]
            ELSE [raises |-> FALSE,
                  value |-> [i \in DOMAIN results |-> results[i].value]]

\* faulty variant: a role without memory gets the note of a role without
\* observations of the category
enrich_disagreements_with_memory_noting_all(disagreements, memory) ==
    IF DOMAIN memory = {} THEN [raises |-> FALSE, value |-> disagreements]
    ELSE
        LET enriched(disagreement) ==
                LET has_memory(item) == item.key \in DOMAIN memory
                    items == disagreement.agent_scores
                    context(item) ==
                        LET relevant(obs) == category_in(disagreement.category_name,
                                                         obs.category)
                            relevant_observations ==
                                IF has_memory(item)
                                THEN SelectSeq(memory[item.key].key_observations, relevant)
                                ELSE <<>>
                        IN  IF relevant_observations # <<>>
                            THEN [kind |-> "noted", agent_role |-> item.key,
                                  score |-> item.value,
                                  observations |->
                                      SubSeq(relevant_observations, 1,
                                             IF Len(relevant_observations) < 2
                                             THEN Len(relevant_observations) ELSE 2)]
                            ELSE [kind |-> "no specific observations",
                                  agent_role |-> item.key, score |-> item.value]
                    enriched_reason ==
                        disagreement.reason
                        \o <<[kind |-> "Working Memory Context:"]>>
                        \o [i \in DOMAIN items |-> context(items[i])]
                IN  Disagreement(disagreement.category_name, disagreement.agent_scores,
                                 enriched_reason, disagreement.resolution_approach)
            results == [i \in DOMAIN disagreements |-> enriched(disagreements[i])]
            failed == {i \in DOMAIN results : results[i].raises}
        IN  IF failed # {} THEN results[SetMin(failed)]
            ELSE [raises |-> FALSE,
                  value |-> [i \in DOMAIN results |-> results[i].value]]

\* _enrich_disagreements_with_memory(disagreements, agent_working_memory):
\* the reason of each disagreement extended by a header and, for each role of
\* agent_scores that has a memory, its first 2 observations of the category
\* or a note that it has none; a role without memory is passed over.
enrich_disagreements_with_memory(disagreements, memory) ==
    IF DOMAIN memory = {} THEN [raises |-> FALSE, value |-> disagreements]
    ELSE
        LET enriched(disagreement) ==
                LET has_memory(item) == item.key \in DOMAIN memory
                    items == SelectSeq(disagreement.agent_scores, has_memory)
                    context(item) ==
                        LET relevant(obs) == category_in(disagreement.category_name,
                                                         obs.category)
                            relevant_observations ==
                                SelectSeq(memory[item.key].key_observations, relevant)
                        IN  IF relevant_observations # <<>>
                            THEN [kind |-> "noted", agent_role |-> item.key,
                                  score |-> item.value,
                                  observations |->
                                      SubSeq(relevant_observations, 1,
                                             IF Len(relevant_observations) < 2
                                             THEN Len(relevant_observations) ELSE 2)]
                            ELSE [kind |-> "no specific observations",
                                  agent_role |-> item.key, score |-> item.value]
                    enriched_reason ==
                        disagreement.reason
                        \o <<[kind |-> "Working Memory Context:"]>>
                        \o [i \in DOMAIN items |-> context(items[i])]
                IN  Disagreement(disagreement.category_name, disagreement.agent_scores,
                                 enriched_reason, disagreement.resolution_approach)
            results == [i \in DOMAIN disagreements |-> enriched(disagreements[i])]
            failed == {i \in DOMAIN results : results[i].raises}
        IN  IF failed # {} THEN results[SetMin(failed)]
            ELSE [raises |-> FALSE,
                  value |-> [i \in DOMAIN results |-> results[i].value]]

\* item.lower().strip() on the texts used below
lower_strip(item) ==
    CASE item = "Python"  -> "python"
      [] item = "python " -> "python"
      [] OTHER            -> item

\* faulty variant: among texts of equal count the later one comes first
deduplicate_strengths_risks_ties_reversed(items) ==
    LET first_seen(i) == \A j \in 1..(i - 1) : lower_strip(items[j]) # lower_strip(items[i])
        entries == SelectSeq([i \in DOMAIN items |-> i], first_seen)
        count(k) == Cardinality({j \in DOMAIN items :
                                   lower_strip(items[j]) = lower_strip(items[entries[k]])})
        place(k) == 1 + Cardinality({m \in DOMAIN entries :
                                       \/ count(m) > count(k)
                                       \/ count(m) = count(k) /\ m > k})
        sorted_items == [r \in DOMAIN entries |->
                            items[entries[CHOOSE k \in DOMAIN entries : place(k) = r]]]
    IN  SubSeq(sorted_items, 1, IF Len(sorted_items) < 5 THEN Len(sorted_items) ELSE 5)

\* _deduplicate_strengths_risks(items): one text per key, the first spelling,
\* sorted by descending count (a stable sort), the first 5
deduplicate_strengths_risks(items) ==
    LET first_seen(i) == \A j \in 1..(i - 1) : lower_strip(items[j]) # lower_strip(items[i])
        entries == SelectSeq([i \in DOMAIN items |-> i], first_seen)
        count(k) == Cardinality({j \in DOMAIN items :
                                   lower_strip(items[j]) = lower_strip(items[entries[k]])})
        place(k) == 1 + Cardinality({m \in DOMAIN entries :
                                       \/ count(m) > count(k)
                                       \/ count(m) = count(k) /\ m < k})
        sorted_items == [r \in DOMAIN entries |->
                            items[entries[CHOOSE k \in DOMAIN entries : place(k) = r]]]
    IN  SubSeq(sorted_items, 1, IF Len(sorted_items) < 5 THEN Len(sorted_items) ELSE 5)

\* top_strengths.extend / top_risks.extend over the reviews
RECURSIVE extend_all(_, _)
extend_all(lists, i) == IF i = 0 THEN <<>> ELSE extend_all(lists, i - 1) \o lists[i]

\* round(x, 1) of the float nearest to num/den, in tenths.  A value half way
\* between two tenths falls to the side its float happens to lie on: both.
round1(num, den) ==
    {t \in 0..(((10 * num) \div den) + 1) :
        LET d == 10 * num - t * den
        IN  2 * (IF d < 0 THEN -d ELSE d) <= den}

\* f"{avg:.1f}" in tenths
format_1f(avg) == CHOOSE t \in round1(avg.num, avg.den) : TRUE

\* the sum of category.weight * avg_score over the first i categories, as a
\* fraction
RECURSIVE weighted_score_sum(_, _, _)
weighted_score_sum(rb, reviews, i) ==
    IF i = 0 THEN [num |-> 0, den |-> 1]
    ELSE LET before == weighted_score_sum(rb, reviews, i - 1)
             category == rb.categories[i]
             avg_score == calculate_weighted_average_score(category.name, reviews)
         IN  [num |-> before.num * avg_score.den
                      + category.weight * avg_score.num * before.den,
              den |-> before.den * avg_score.den]

\* total_weight: the weights of all categories of the rubric
total_weight(rb) == Sum([i \in DOMAIN rb.categories |-> rb.categories[i].weight])

\* overall_fit_score in tenths: the values round() can give
overall_fit_scores(rb, reviews) ==
    LET weighted == weighted_score_sum(rb, reviews, Len(rb.categories))
    IN  IF total_weight(rb) > 0
        THEN round1(weighted.num, weighted.den * total_weight(rb))
        ELSE {0}

\* faulty variant: four disagreements still give medium
confidence_level_wide(num_disagreements) ==
    IF num_disagreements = 0 THEN "high"
    ELSE IF num_disagreements <= 3 THEN "medium"
    ELSE "low"

\* the confidence of _create_decision_packet
confidence_level(num_disagreements) ==
    IF num_disagreements = 0 THEN "high"
    ELSE IF num_disagreements <= 2 THEN "medium"
    ELSE "low"

\* faulty variant: an average of exactly 3.0 is a gap
is_gap_at_threshold(avg_score) == avg_score.num <= 3 * avg_score.den

\* `if avg_score < 3.0`
is_gap(avg_score) == avg_score.num < 3 * avg_score.den

\* must_have_gaps of _create_decision_packet; a gap description is the
\* category's name and its average as printed
must_have_gaps_of(rb, reviews) ==
    LET gap(category) ==
            /\ category.is_must_have
            /\ is_gap(calculate_weighted_average_score(category.name, reviews))
        categories == SelectSeq(rb.categories, gap)
    IN  [i \in DOMAIN categories |->
            [category |-> categories[i].name,
             avg |-> format_1f(calculate_weighted_average_score(categories[i].name,
                                                                reviews))]]

\* faulty variant: a lean hire is given also with must-have gaps
determine_recommendation_ignoring_gaps(overall_fit_score, must_have_gaps) ==
    IF overall_fit_score >= 40 /\ must_have_gaps = <<>> THEN Some("Hire")
    ELSE IF overall_fit_score >= 35 THEN Some("Lean hire")
    ELSE IF overall_fit_score < 25 \/ must_have_gaps # <<>> THEN
        IF must_have_gaps # <<>> THEN Some("No") ELSE Some("Lean no")
    ELSE NONE

\* the recommendation of _create_decision_packet; the score is in tenths
determine_recommendation(overall_fit_score, must_have_gaps) ==
    IF overall_fit_score >= 40 /\ must_have_gaps = <<>> THEN Some("Hire")
    ELSE IF overall_fit_score >= 35 /\ must_have_gaps = <<>> THEN Some("Lean hire")
    ELSE IF overall_fit_score < 25 \/ must_have_gaps # <<>> THEN
        IF must_have_gaps # <<>> THEN Some("No") ELSE Some("Lean no")
    ELSE NONE

\* faulty variant: the check of Hire against the must-have gaps is missing
validate_recommendation_alignment_no_gap_check(packet) ==
    IF IsNone(packet.recommendation) THEN Returns
    ELSE IF packet.overall_fit_score >= 40
            /\ Get(packet.recommendation) \in {"Lean no", "No"} THEN
        Raises("ValidationError", [text |-> "(strong) but recommendation seems inconsistent",
                                   overall_fit_score |-> packet.overall_fit_score,
                                   recommendation |-> packet.recommendation])
    ELSE IF packet.overall_fit_score < 20
            /\ Get(packet.recommendation) \in {"Hire", "Lean hire"} THEN
        Raises("ValidationError", [text |-> "(weak) but recommendation seems inconsistent",
                                   overall_fit_score |-> packet.overall_fit_score,
                                   recommendation |-> packet.recommendation])
    ELSE Returns

\* DecisionPacket.validate_recommendation_alignment
validate_recommendation_alignment(packet) ==
    IF IsNone(packet.recommendation) THEN Returns
    ELSE IF packet.must_have_gaps # <<>> /\ Get(packet.recommendation) = "Hire" THEN
        Raises("ValidationError", [text |-> "Recommendation is 'Hire' but must-have gaps exist",
                                   must_have_gaps |-> packet.must_have_gaps])
    ELSE IF packet.overall_fit_score >= 40
            /\ Get(packet.recommendation) \in {"Lean no", "No"} THEN
        Raises("ValidationError", [text |-> "(strong) but recommendation seems inconsistent",
                                   overall_fit_score |-> packet.overall_fit_score,
                                   recommendation |-> packet.recommendation])
    ELSE IF packet.overall_fit_score < 20
            /\ Get(packet.recommendation) \in {"Hire", "Lean hire"} THEN
        Raises("ValidationError", [text |-> "(weak) but recommendation seems inconsistent",
                                   overall_fit_score |-> packet.overall_fit_score,
                                   recommendation |-> packet.recommendation])
    ELSE Returns

\* the validation of a DecisionPacket's fields and then of the model, at
\* construction and at every assignment.  An error carries the values its
\* message prints.  generated_at, the time of the construction, is left out
\* of the record.
validate_decision_packet(packet) ==
    IF packet.overall_fit_score < 0 \/ packet.overall_fit_score > 50 THEN
        Raises("ValidationError", [text |-> "overall_fit_score: not between 0.0 and 5.0"])
    ELSE IF Len(packet.top_strengths) < 3 \/ Len(packet.top_strengths) > 5 THEN
        Raises("ValidationError", [text |-> "top_strengths: not 3 to 5 items"])
    ELSE IF Len(packet.top_risks) < 3 \/ Len(packet.top_risks) > 5 THEN
        Raises("ValidationError", [text |-> "top_risks: not 3 to 5 items"])
    ELSE IF validate_recommendation_alignment(packet).raises THEN
        validate_recommendation_alignment(packet)
    ELSE [raises |-> FALSE, value |-> packet]

\* DecisionPacket(role_title=..., ...)
DecisionPacket(role_title, overall_fit_score, confidence, top_strengths, top_risks, must_have_gaps, recommendation, disagreements) ==
    validate_decision_packet(
        [role_title |-> role_title,
         overall_fit_score |-> overall_fit_score,
         confidence |-> confidence,
         top_strengths |-> top_strengths,
         top_risks |-> top_risks,
         must_have_gaps |-> must_have_gaps,
         recommendation |-> recommendation,
         disagreements |-> disagreements])

\* _create_decision_packet(rubric, panel_reviews, disagreements,
\* agent_working_memory): the outcome for each value of the rounded score
create_decision_packet(rb, reviews, disagreements, memory) ==
    {LET must_have_gaps == must_have_gaps_of(rb, reviews)
     IN  DecisionPacket(
             rb.role_title,
             overall_fit_score,
             confidence_level(Len(disagreements)),
             deduplicate_strengths_risks(
                 extend_all([i \in DOMAIN reviews |-> reviews[i].top_strengths],
                            Len(reviews))),
             deduplicate_strengths_risks(
                 extend_all([i \in DOMAIN reviews |-> reviews[i].top_risks],
                            Len(reviews))),
             must_have_gaps,
             determine_recommendation(overall_fit_score, must_have_gaps),
             disagreements)
     : overall_fit_score \in overall_fit_scores(rb, reviews)}

\* an InterviewQuestion; the texts it carries are fixed by its source
InterviewQuestion(source, about, category, interviewer_role) ==
    [question |-> [source |-> source, about |-> about],
     category |-> category,
     interviewer_role |-> interviewer_role]

\* the first n items of a list, xs[:n]
first_items(xs, n) == SubSeq(xs, 1, IF Len(xs) < n THEN Len(xs) ELSE n)

\* the must-have categories whose average is below 3.0, in rubric order
gap_categories(rb, reviews) ==
    LET gap(category) ==
            /\ category.is_must_have
            /\ is_gap(calculate_weighted_average_score(category.name, reviews))
    IN  SelectSeq(rb.categories, gap)

\* step 1 of _create_interview_plan for one role: a question for each gap
\* category and each review of the role whose first item of that category
\* with a score below 3 exists
gap_questions(rb, reviews, role) ==
    LET categories == gap_categories(rb, reviews)
        asks(category_name) ==
            LET low(review) ==
                    /\ review.agent_role = role
                    /\ \E i \in DOMAIN review.category_scores :
                          /\ review.category_scores[i].category_name = category_name
                          /\ review.category_scores[i].score < 3
                askers == SelectSeq(reviews, low)
            IN  [i \in DOMAIN askers |->
                    InterviewQuestion("must-have gap", category_name, category_name, role)]
    IN  extend_all([c \in DOMAIN categories |-> asks(categories[c].name)],
                   Len(categories))

\* faulty variant: of several roles with the lowest score the last one asks
lowest_agent_last_of_ties(disagreement) ==
    LET agent_scores == disagreement.agent_scores
        lowest_score == SetMin({agent_scores[i].value : i \in DOMAIN agent_scores})
        lowest == agents_scoring(agent_scores, lowest_score)
    IN  lowest[Len(lowest)]

\* the role asking about a disagreement: the first of agent_scores with the
\* lowest score
lowest_agent(disagreement) ==
    LET agent_scores == disagreement.agent_scores
        lowest_score == SetMin({agent_scores[i].value : i \in DOMAIN agent_scores})
    IN  agents_scoring(agent_scores, lowest_score)[1]

\* step 2 for one role
disagreement_questions(disagreements, role) ==
    LET mine(disagreement) == lowest_agent(disagreement) = role
        asked == SelectSeq(disagreements, mine)
    IN  [i \in DOMAIN asked |->
            InterviewQuestion("disagreement", asked[i].category_name,
                              asked[i].category_name, role)]

\* step 3 for one role that has a memory
memory_questions(working_memory_of_role, role) ==
    LET ambiguities == first_items(working_memory_of_role.ambiguities, 2)
        missing == first_items(working_memory_of_role.missing_information, 2)
        contradictory(ref) ==
            ref.assessment = "contradictory" \/ ref.contradictory_evidence # <<>>
        contradictory_refs ==
            first_items(SelectSeq(working_memory_of_role.cross_references, contradictory), 1)
    IN  [i \in DOMAIN ambiguities |->
            InterviewQuestion("ambiguity", ambiguities[i], "Clarification", role)]
        \o [i \in DOMAIN missing |->
            InterviewQuestion("missing information", missing[i], "Gap Exploration", role)]
        \o [i \in DOMAIN contradictory_refs |->
            InterviewQuestion("contradiction", contradictory_refs[i].claim,
                              "Claim Verification", role)]

\* faulty variant: a question arriving at a full list displaces the oldest
questions_by_interviewer_of_displacing(rb, reviews, disagreements, memory) ==
    LET first_of_role(i) == \A j \in 1..(i - 1) : reviews[j].agent_role # reviews[i].agent_role
        roles == SelectSeq([i \in DOMAIN reviews |-> i], first_of_role)
        questions(role) ==
            gap_questions(rb, reviews, role)
            \o disagreement_questions(disagreements, role)
            \o (IF role \in DOMAIN memory THEN memory_questions(memory[role], role)
                ELSE <<>>)
        last_items(xs) == IF Len(xs) <= 7 THEN xs ELSE SubSeq(xs, Len(xs) - 6, Len(xs))
    IN  [r \in DOMAIN roles |->
            [key |-> reviews[roles[r]].agent_role,
             value |-> last_items(questions(reviews[roles[r]].agent_role))]]

\* questions_by_interviewer: a key per role of the reviews, in their order;
\* a list takes a question while it holds fewer than 7
questions_by_interviewer_of(rb, reviews, disagreements, memory) ==
    LET first_of_role(i) == \A j \in 1..(i - 1) : reviews[j].agent_role # reviews[i].agent_role
        roles == SelectSeq([i \in DOMAIN reviews |-> i], first_of_role)
        questions(role) ==
            gap_questions(rb, reviews, role)
            \o disagreement_questions(disagreements, role)
            \o (IF role \in DOMAIN memory THEN memory_questions(memory[role], role)
                ELSE <<>>)
    IN  [r \in DOMAIN roles |->
            [key |-> reviews[roles[r]].agent_role,
             value |-> first_items(questions(reviews[roles[r]].agent_role), 7)]]

\* priority_areas before the deduplication: gap categories, then the
\* categories of the disagreements
priority_areas_of(rb, reviews, disagreements) ==
    LET categories == gap_categories(rb, reviews)
    IN  [i \in DOMAIN categories |-> categories[i].name]
        \o [i \in DOMAIN disagreements |-> disagreements[i].category_name]

\* list(set(xs)): the elements once each, in the order the set's hash table
\* gives them.  str hashes are seeded per process: every order is possible.
list_of_set(xs) ==
    LET elements == {xs[i] : i \in DOMAIN xs}
    IN  {order \in [1..Cardinality(elements) -> elements] :
            \A x \in elements : \E i \in DOMAIN order : order[i] = x}

\* InterviewPlan(questions_by_interviewer=..., priority_areas=...,
\* time_estimate_minutes=...): the object or the error of its validation
InterviewPlan(questions_by_interviewer, priority_areas, time_estimate_minutes) ==
    IF priority_areas = <<>> THEN
        Raises("ValidationError", [text |-> "priority_areas: at least 1 item"])
    ELSE IF time_estimate_minutes <= 0 THEN
        Raises("ValidationError", [text |-> "time_estimate_minutes: not greater than 0"])
    ELSE IF dict_keys(questions_by_interviewer) \ valid_roles # {} THEN
        Raises("ValidationError", [text |-> "Invalid interviewer roles"])
    ELSE IF \A i \in DOMAIN questions_by_interviewer :
                questions_by_interviewer[i].value = <<>> THEN
        Raises("ValidationError", [text |-> "Interview plan must include at least one question"])
    ELSE IF \E i \in DOMAIN questions_by_interviewer :
                \E q \in DOMAIN questions_by_interviewer[i].value :
                    questions_by_interviewer[i].value[q].interviewer_role
                        # questions_by_interviewer[i].key THEN
        Raises("ValidationError", [text |-> "Question interviewer_role mismatch"])
    ELSE [raises |-> FALSE,
          value |-> [questions_by_interviewer |-> questions_by_interviewer,
                     priority_areas |-> priority_areas,
                     time_estimate_minutes |-> time_estimate_minutes]]

\* _create_interview_plan(rubric, panel_reviews, disagreements,
\* agent_working_memory): the outcome for each order of priority_areas
create_interview_plan(rb, reviews, disagreements, memory) ==
    LET questions_by_interviewer ==
            questions_by_interviewer_of(rb, reviews, disagreements, memory)
    IN  {InterviewPlan(questions_by_interviewer, priority_areas,
                       Len(questions_by_interviewer) * 15)
         : priority_areas \in list_of_set(priority_areas_of(rb, reviews, disagreements))}

\* synthesis_node on a state with this rubric (or None), these reviews and
\* this memory map: the state update or the exception, for each outcome of
\* its steps
synthesis_node_on(rb, reviews, memory) ==
    IF IsNone(rb) THEN {Raises("ValueError", "Rubric is required for synthesis")}
    ELSE IF reviews = <<>> THEN
        {Raises("ValueError", "Panel reviews are required for synthesis")}
    ELSE
        LET detected == detect_disagreements(reviews, Get(rb))
            enriched == enrich_disagreements_with_memory(detected.value, memory)
        IN  IF detected.raises THEN {detected}
            ELSE IF enriched.raises THEN {enriched}
            ELSE
                {IF packet.raises THEN packet
                 ELSE IF plan.raises THEN plan
                 ELSE [raises |-> FALSE,
                       update |-> [disagreements |-> enriched.value,
                                   decision_packet |-> packet.value,
                                   interview_plan |-> plan.value]]
                 : packet \in create_decision_packet(Get(rb), reviews, enriched.value, memory),
                   plan \in create_interview_plan(Get(rb), reviews, enriched.value, memory)}

-----------------------------------------------------------------------------
(* Direct calls of the synthesis functions, as the tests of                *)
(* tests/test_nodes/test_synthesis.py make them, on bounded rubrics and    *)
(* reviews.  A review may leave categories of the rubric unscored.         *)

\* panel_agent_roles: the roles of a list of reviews
RolesIn(reviews) == {reviews[i].agent_role : i \in DOMAIN reviews}

\* no workflow is running
IdleWorkflow ==
    /\ job_description = "jd"
    /\ resume = "cv"
    /\ settings = [enable_product_agent |-> FALSE]
    /\ rubric = NONE
    /\ panel_reviews = <<>>
    /\ agent_working_memory = EmptyMap
    /\ synthesis_out = NONE
    /\ active = {}
    /\ graph_done = FALSE
    /\ pc = [n \in Nodes |-> "idle"]
    /\ attempt = [n \in Nodes |-> 1]
    /\ calls = [n \in Nodes |-> 0]
    /\ waits = [n \in Nodes |-> <<>>]
    /\ last_exception = [n \in Nodes |-> NONE]
    /\ failures = [n \in Nodes |-> 0]
    /\ raised = [n \in Nodes |-> NONE]
    /\ working_memory = [n \in PanelNodes |-> NONE]
    /\ generations = [n \in PanelNodes |-> 0]
    /\ job = NONE
    /\ writes = [n \in Nodes |-> NONE]
    /\ done_order = <<>>
    /\ runs = [n \in Nodes |-> 0]
    /\ seen_at_start = [n \in Nodes |-> {}]
    /\ run = "idle"
    /\ result = NONE
    /\ error = NONE

\* the scores the reviews below give
SynthScores == {2, 3, 5}

\* the reviewers, in the order their reviews are listed
SynthRoles == <<"HR", "Tech", "Compliance">>

RubricCategory(name, weight, is_must_have) ==
    [name |-> name, weight |-> weight, is_must_have |-> is_must_have]

\* rubrics as Rubric accepts them: weights summing to 1.0, a must-have
\* category, distinct names
SynthRubrics ==
    {[role_title |-> "Engineer",
      categories |-> <<RubricCategory("A", 50, TRUE), RubricCategory("B", 30, FALSE),
                       RubricCategory("C", 20, FALSE)>>],
     [role_title |-> "Engineer",
      categories |-> <<RubricCategory("B", 80, TRUE), RubricCategory("A", 20, TRUE)>>],
     [role_title |-> "Engineer",
      categories |-> <<RubricCategory("A", 70, TRUE), RubricCategory("B", 30, FALSE)>>],
     [role_title |-> "Engineer",
      categories |-> <<RubricCategory("B", 100, TRUE)>>]}

\* the i-th smallest element of a set of numbers
NthOf(K, i) == CHOOSE k \in K : Cardinality({m \in K : m < k}) = i - 1

\* the category_scores lists over a rubric: some of its categories, at least
\* one, in the rubric's order
CategoryScoreLists(rb) ==
    UNION {{[j \in 1..Cardinality(K) |->
                [category_name |-> rb.categories[NthOf(K, j)].name,
                 score |-> f[NthOf(K, j)]]] : f \in [K -> SynthScores]}
           : K \in (SUBSET DOMAIN rb.categories) \ {{}}}

\* the strengths and risks a role's review lists
StrengthsOf(role) ==
    CASE role = "HR"   -> <<"Python", "SQL", "Go">>
      [] role = "Tech" -> <<"python ", "Go", "Rust">>
      [] OTHER         -> <<"SQL", "Go", "Kafka">>

SynthReview(role, category_scores) ==
    [agent_role |-> role, category_scores |-> category_scores,
     top_strengths |-> StrengthsOf(role), top_risks |-> StrengthsOf(role)]

\* the number of reviews over a rubric: up to three reviewers on the rubric
\* of one category, up to two on the others
ReviewCounts(rb) == 1..(IF Len(rb.categories) <= 1 THEN 3 ELSE 2)

ReviewsOf(score_lists) ==
    [i \in DOMAIN score_lists |-> SynthReview(SynthRoles[i], score_lists[i])]

\* a WorkingMemory of a role: three observations of one category, and the
\* ambiguities given
SynthMemory(role, category_name, ambiguities) ==
    [agent_role |-> role,
     key_observations |-> [i \in 1..3 |-> [category |-> category_name,
                                           observation |-> i]],
     cross_references |-> <<>>,
     missing_information |-> <<>>,
     ambiguities |-> ambiguities]

\* the memory maps that go with a list of reviews: none, or one memory for
\* each role
SynthMemoryMaps(rb, reviews) ==
    {EmptyMap,
     [role \in RolesIn(reviews) |-> SynthMemory(role, rb.categories[1].name, <<>>)]}

\* the operations called on a rubric and reviews
SynthesisOps == {"_detect_disagreements", "_create_decision_packet", "synthesis_node"}

\* the scores and keys of the agent_scores a Disagreement is constructed
\* with directly: scores within and outside 0..5, canonical roles and another
DisagreementScores == {-1, 2, 3, 5, 6}

DisagreementKeys == {"HR", "Tech", NonCanonicalRole}

\* dicts of up to 2 entries
AgentScoreDicts ==
    {<<>>}
    \cup {<<[key |-> k, value |-> v]>> : k \in DisagreementKeys, v \in DisagreementScores}
    \cup {d \in {<<[key |-> k1, value |-> v1], [key |-> k2, value |-> v2]>> :
                     k1 \in DisagreementKeys, k2 \in DisagreementKeys,
                     v1 \in DisagreementScores, v2 \in DisagreementScores} :
             d[1].key # d[2].key}

\* the pooled lists _deduplicate_strengths_risks is called with directly: the
\* lists of some reviewers, of up to 6 texts that differ after lower-casing
\* and trimming, followed by up to MaxRepeats texts that may repeat them
MaxRepeats == 3

PooledItems ==
    {head \o tail :
        head \in {<<>>, <<"Python", "SQL", "Go", "Rust", "Kafka", "Java">>,
                        <<"Java", "python ", "Go">>},
        tail \in UNION {[1..n -> {"python ", "Java", "Kafka", "Go"}] : n \in 0..MaxRepeats}}

\* the memory maps _enrich_disagreements_with_memory is called with directly:
\* a memory for some of the roles of the reviews, for none, or for each
EnrichMemoryMaps(rb, reviews) ==
    {[role \in K |-> SynthMemory(role, rb.categories[1].name, <<>>)]
     : K \in SUBSET RolesIn(reviews)}

InitSynthesis ==
    /\ IdleWorkflow
    /\ ret = NONE
    /\ \/ \E rb \in SynthRubrics :
            \E k \in ReviewCounts(rb) :
              \E score_lists \in [1..k -> CategoryScoreLists(rb)] :
                \E op \in SynthesisOps :
                  \E m \in (IF op = "synthesis_node"
                            THEN SynthMemoryMaps(rb, ReviewsOf(score_lists))
                            ELSE {EmptyMap}) :
                    call = [op |-> op, rubric |-> rb,
                            panel_reviews |-> ReviewsOf(score_lists),
                            agent_working_memory |-> m]
       \/ \E agent_scores \in AgentScoreDicts :
            call = [op |-> "Disagreement", category_name |-> "A",
                    agent_scores |-> agent_scores]
       \/ \E items \in PooledItems :
            call = [op |-> "_deduplicate_strengths_risks", items |-> items]
       \/ \E rb \in SynthRubrics :
            \E score_lists \in [1..2 -> CategoryScoreLists(rb)] :
              \E m \in EnrichMemoryMaps(rb, ReviewsOf(score_lists)) :
                 LET detected == detect_disagreements(ReviewsOf(score_lists), rb)
                 IN  /\ ~detected.raises
                     /\ call = [op |-> "_enrich_disagreements_with_memory",
                                disagreements |-> detected.value,
                                agent_working_memory |-> m]

CallDetectDisagreements ==
    /\ call.op = "_detect_disagreements" /\ IsNone(ret)
    /\ ret' = Some(detect_disagreements(call.panel_reviews, call.rubric))
    /\ UNCHANGED call
    /\ UNCHANGED_workflow

\* Disagreement(category_name=..., agent_scores=..., reason="r",
\* resolution_approach="a")
CallDisagreement ==
    /\ call.op = "Disagreement" /\ IsNone(ret)
    /\ ret' = Some(Disagreement(call.category_name, call.agent_scores, "r", "a"))
    /\ UNCHANGED call
    /\ UNCHANGED_workflow

\* the disagreements handed over are those synthesis_node hands over
CallCreateDecisionPacket ==
    /\ call.op = "_create_decision_packet" /\ IsNone(ret)
    /\ \E o \in create_decision_packet(
                    call.rubric, call.panel_reviews,
                    detect_disagreements(call.panel_reviews, call.rubric).value,
                    call.agent_working_memory) :
          ret' = Some(o)
    /\ UNCHANGED call
    /\ UNCHANGED_workflow

\* a run of synthesis_node on the state of the call
CallSynthesisNode ==
    /\ call.op = "synthesis_node" /\ IsNone(ret)
    /\ \E o \in synthesis_node_on(Some(call.rubric), call.panel_reviews,
                                  call.agent_working_memory) :
          ret' = Some(o)
    /\ UNCHANGED call
    /\ UNCHANGED_workflow

\* _enrich_disagreements_with_memory(disagreements, agent_working_memory)
\* on the disagreements detected in two reviews
CallEnrichDisagreements ==
    /\ call.op = "_enrich_disagreements_with_memory" /\ IsNone(ret)
    /\ ret' = Some(enrich_disagreements_with_memory(call.disagreements,
                                                    call.agent_working_memory))
    /\ UNCHANGED call
    /\ UNCHANGED_workflow

\* _deduplicate_strengths_risks(items)
CallDeduplicateStrengthsRisks ==
    /\ call.op = "_deduplicate_strengths_risks" /\ IsNone(ret)
    /\ ret' = Some(deduplicate_strengths_risks(call.items))
    /\ UNCHANGED call
    /\ UNCHANGED_workflow

NextSynthesis ==
    \/ CallDisagreement
    \/ CallDeduplicateStrengthsRisks
    \/ CallEnrichDisagreements
    \/ CallDetectDisagreements
    \/ CallCreateDecisionPacket
    \/ CallSynthesisNode

SpecSynthesis == InitSynthesis /\ [][NextSynthesis]_vars

-----------------------------------------------------------------------------
(* Direct constructions of and assignments to the models, as the tests of  *)
(* tests/test_models make them, and pass 2 of a reviewer on what the LLM   *)
(* returns.                                                                *)

\* the names of a list of category scores, [cs.category_name for cs in ...]
category_names_of(category_scores) ==
    [i \in DOMAIN category_scores |-> category_scores[i].category_name]

\* faulty variant: a category scored twice is let through
category_names_unique_unchecked(category_names) == TRUE

\* `len(category_names) != len(set(category_names))` is false
category_names_unique(category_names) ==
    Len(category_names) = Cardinality({category_names[i] : i \in DOMAIN category_names})

\* the validation of an AgentReview's fields and then of the model, at
\* construction and at every assignment: category_scores min_length 1, the
\* role, validate_category_scores_unique, validate_rubric_category_coverage.
\* The review's texts, valid throughout, are left out of the record.
validate_agent_review(review) ==
    IF review.category_scores = <<>> THEN
        Raises("ValidationError", [text |-> "category_scores: at least 1 item"])
    ELSE IF review.agent_role \notin VALID_AGENT_ROLES THEN
        Raises("ValidationError", [text |-> "agent_role: not one of the literals"])
    ELSE IF ~category_names_unique(category_names_of(review.category_scores)) THEN
        Raises("ValidationError", [text |-> "Duplicate category scores found"])
    ELSE IF /\ ~IsNone(review.expected_rubric_categories)
            /\ LET expected == Get(review.expected_rubric_categories)
                   expected_set == {expected[i] : i \in DOMAIN expected}
                   actual_set == {review.category_scores[i].category_name :
                                     i \in DOMAIN review.category_scores}
               IN  ~validate_rubric_category_coverage([categories |-> actual_set],
                                                      expected_set) THEN
        Raises("ValidationError", [text |-> "Rubric category coverage validation failed"])
    ELSE [raises |-> FALSE, value |-> review]

\* AgentReview(agent_role=..., category_scores=...,
\* expected_rubric_categories=...)
AgentReview(agent_role, category_scores, expected_rubric_categories) ==
    validate_agent_review([agent_role |-> agent_role,
                           category_scores |-> category_scores,
                           expected_rubric_categories |-> expected_rubric_categories])

\* the try block of the HR reviewer's _evaluate_with_memory on what the LLM
\* answers: the AgentReview llm.invoke builds from it, the assignment of
\* expected_rubric_categories, validated, and the check of the role
evaluate_with_memory_review(expected_categories, llm_output) ==
    LET review == AgentReview(llm_output.agent_role, llm_output.category_scores, NONE)
        assigned ==
            validate_agent_review(
                [review.value EXCEPT
                    !.expected_rubric_categories = Some(expected_categories)])
    IN  IF review.raises THEN review
        ELSE IF assigned.raises THEN assigned
        ELSE IF review.value.agent_role # "HR" THEN
            Raises("ValueError", [text |-> "Expected agent_role='HR'"])
        ELSE assigned

\* packet.<name> = value on a DecisionPacket (validate_assignment=True): the
\* packet with the field set, or the error of its validation
setattr_decision_packet(packet, name, value) ==
    validate_decision_packet([packet EXCEPT ![name] = value])

\* the arguments of the constructions below: scores in tenths, at the
\* thresholds 2.0 and 4.0, next to them, at the ends of the range and past it
ModelScores == {0, 19, 20, 39, 40, 50, 51}

Recommendations == {NONE} \cup {Some(r) : r \in {"Hire", "Lean hire", "Lean no", "No"}}

ModelGaps == {<<>>, <<"Critical Skill">>}

TestPacket(overall_fit_score, recommendation, must_have_gaps) ==
    DecisionPacket("Test Role", overall_fit_score, "high", <<"S1", "S2", "S3">>,
                   <<"R1", "R2", "R3">>, must_have_gaps, recommendation, <<>>)

\* the fields assigned to and the values they are given
AssignedFields == {"overall_fit_score", "recommendation", "must_have_gaps"}

AssignedValues(name) ==
    CASE name = "overall_fit_score" -> ModelScores
      [] name = "recommendation"    -> Recommendations
      [] name = "must_have_gaps"    -> ModelGaps

\* lists of 1 to 3 category scores over three names, any order, repeats
\* included
ModelCategoryNames == {"A", "B", "C"}

ModelCategoryScores ==
    {[i \in DOMAIN names |-> [category_name |-> names[i], score |-> 3]] :
        names \in UNION {[1..n -> ModelCategoryNames] : n \in 1..3}}

\* [category.name for category in rubric.categories]
ExpectedCategoryLists == {<<"A", "B">>, <<"B", "A">>, <<"A", "B", "C">>}

InitModels ==
    /\ IdleWorkflow
    /\ ret = NONE
    /\ \/ \E overall_fit_score \in ModelScores, recommendation \in Recommendations,
            must_have_gaps \in ModelGaps :
            call = [op |-> "DecisionPacket", overall_fit_score |-> overall_fit_score,
                    recommendation |-> recommendation,
                    must_have_gaps |-> must_have_gaps]
       \/ \E overall_fit_score \in ModelScores, recommendation \in Recommendations,
            must_have_gaps \in ModelGaps, name \in AssignedFields :
            \E value \in AssignedValues(name) :
               LET packet == TestPacket(overall_fit_score, recommendation, must_have_gaps)
               IN  /\ ~packet.raises
                   /\ call = [op |-> "DecisionPacket.__setattr__",
                              packet |-> packet.value, name |-> name, value |-> value]
       \/ \E category_scores \in ModelCategoryScores,
            expected \in {NONE} \cup {Some(e) : e \in ExpectedCategoryLists} :
            call = [op |-> "AgentReview", agent_role |-> "HR",
                    category_scores |-> category_scores,
                    expected_rubric_categories |-> expected]
       \/ \E category_scores \in ModelCategoryScores, agent_role \in {"HR", "Tech"},
            expected \in ExpectedCategoryLists :
            call = [op |-> "_evaluate_with_memory",
                    llm_output |-> [agent_role |-> agent_role,
                                    category_scores |-> category_scores],
                    expected_categories |-> expected]

CallDecisionPacket ==
    /\ call.op = "DecisionPacket" /\ IsNone(ret)
    /\ ret' = Some(TestPacket(call.overall_fit_score, call.recommendation,
                              call.must_have_gaps))
    /\ UNCHANGED call
    /\ UNCHANGED_workflow

CallSetattrDecisionPacket ==
    /\ call.op = "DecisionPacket.__setattr__" /\ IsNone(ret)
    /\ ret' = Some(setattr_decision_packet(call.packet, call.name, call.value))
    /\ UNCHANGED call
    /\ UNCHANGED_workflow

CallAgentReview ==
    /\ call.op = "AgentReview" /\ IsNone(ret)
    /\ ret' = Some(AgentReview(call.agent_role, call.category_scores,
                               call.expected_rubric_categories))
    /\ UNCHANGED call
    /\ UNCHANGED_workflow

\* pass 2 of the HR reviewer from the LLM's answer on
CallEvaluateWithMemory ==
    /\ call.op = "_evaluate_with_memory" /\ IsNone(ret)
    /\ ret' = Some(evaluate_with_memory_review(call.expected_categories,
                                                call.llm_output))
    /\ UNCHANGED call
    /\ UNCHANGED_workflow

NextModels ==
    \/ CallDecisionPacket
    \/ CallSetattrDecisionPacket
    \/ CallAgentReview
    \/ CallEvaluateWithMemory

SpecModels == InitModels /\ [][NextModels]_vars

-----------------------------------------------------------------------------
(* Properties                                                              *)

Scheduled(n) == runs[n] > 0

Completed(n) == pc[n] = "done"

WrappedNodes == Nodes \ {"validate_state"}

PanelRoles == {NodeRole(n) : n \in PanelNodes}

\* C1: rubric generation completes before any reviewer node starts, every
\* reviewer node completes before validate_state starts, validate_state
\* completes before synthesis starts, and no node is scheduled twice.
C1_CausalOrder ==
    /\ \A n \in PanelNodes :
          Scheduled(n) => Completed("orchestrator") /\ "orchestrator" \in seen_at_start[n]
    /\ Scheduled("validate_state") =>
          \A n \in PanelNodes : Completed(n) /\ n \in seen_at_start["validate_state"]
    /\ Scheduled("synthesis") =>
          Completed("validate_state") /\ "validate_state" \in seen_at_start["synthesis"]
    /\ \A n \in Nodes : runs[n] <= 1 /\ (calls[n] > 0 => Scheduled(n))

\* a run in which every stage ran, synthesis last
C1_Witness ==
    graph_done /\ \A n \in Nodes : runs[n] = 1 /\ Completed(n)

\* C2: validate_state runs exactly once per run, and only after all three
\* reviewer branches have completed, whatever their completion order.
C2_AndJoin ==
    /\ runs["validate_state"] <= 1
    /\ calls["validate_state"] <= 1
    /\ Scheduled("validate_state") =>
          /\ \A n \in PanelNodes : Completed(n) /\ calls[n] >= 1
          /\ PanelNodes \subseteq seen_at_start["validate_state"]
    /\ graph_done => runs["validate_state"] = 1 /\ calls["validate_state"] = 1

\* validate_state ran after the branches completed in the order
\* compliance, tech, hr
C2_Witness ==
    /\ calls["validate_state"] = 1
    /\ Len(panel_reviews) = 3
    /\ panel_reviews[1].agent_role = "Compliance"
    /\ panel_reviews[2].agent_role = "Tech"
    /\ panel_reviews[3].agent_role = "HR"

\* C3: after fan-in panel_reviews holds exactly one review per reviewer
\* branch, the one that branch returned; before fan-in it holds none.
C3_OneReviewPerBranch ==
    IF Scheduled("validate_state")
    THEN /\ Len(panel_reviews) = 3
         /\ \A n \in PanelNodes :
               /\ Cardinality({i \in DOMAIN panel_reviews :
                                 panel_reviews[i].agent_role = NodeRole(n)}) = 1
               /\ \E i \in DOMAIN panel_reviews :
                     panel_reviews[i] = Get(Get(writes[n]).panel_reviews)[1]
               /\ \A i \in DOMAIN panel_reviews :
                     panel_reviews[i].agent_role = NodeRole(n)
                        => panel_reviews[i].attempt = attempt[n]
    ELSE panel_reviews = <<>>

\* fan-in after the tech branch succeeded on its third attempt and the hr
\* branch on its second
C3_Witness ==
    /\ Scheduled("validate_state")
    /\ attempt["tech_agent"] = 3 /\ attempt["hr_agent"] = 2
    /\ Len(panel_reviews) = 3

\* C4: merge_agent_memory keeps every existing entry unchanged, adds every
\* new key that is absent from the existing map, and keeps the existing
\* value of a key present in both.
C4_FirstWriterWins ==
    (call.op = "merge_agent_memory" /\ ~IsNone(ret)) =>
        LET existing == IF IsNone(call.existing) THEN EmptyMap ELSE Get(call.existing)
            new == IF IsNone(call.new) THEN EmptyMap ELSE Get(call.new)
            merged == Get(ret)
        IN  /\ DOMAIN merged = DOMAIN existing \cup DOMAIN new
            /\ \A k \in DOMAIN existing : merged[k] = existing[k]
            /\ \A k \in DOMAIN new \ DOMAIN existing : merged[k] = new[k]

\* a merge in which a key is in both maps with different values, and
\* another key only in the new map
C4_Witness ==
    /\ call.op = "merge_agent_memory" /\ ~IsNone(ret)
    /\ ~IsNone(call.existing) /\ ~IsNone(call.new)
    /\ "HR" \in DOMAIN Get(call.existing) /\ "HR" \in DOMAIN Get(call.new)
    /\ Get(call.existing)["HR"] # Get(call.new)["HR"]
    /\ "Tech" \in DOMAIN Get(call.new) \ DOMAIN Get(call.existing)
    /\ Get(ret)["HR"] = Get(call.existing)["HR"]

\* the state is consistent: the roles of the reviews are the keys of the
\* memory map, all canonical, and each memory carries its key as role
Consistent(reviews, memory) ==
    /\ RolesIn(reviews) = DOMAIN memory
    /\ RolesIn(reviews) \subseteq VALID_AGENT_ROLES
    /\ DOMAIN memory \subseteq VALID_AGENT_ROLES
    /\ \A k \in DOMAIN memory : memory[k].agent_role = k

\* C5: whenever synthesis has been started, panel_reviews and
\* agent_working_memory are consistent, in runs from the start and in runs
\* from any fan-in state.
C5_SynthesisOnConsistentState ==
    (Scheduled("synthesis") \/ calls["synthesis"] > 0) =>
        /\ Consistent(panel_reviews, agent_working_memory)
        /\ panel_reviews # <<>>

\* synthesis started from a fan-in state that holds two reviews of one role
C5_Witness ==
    /\ calls["synthesis"] = 1
    /\ Len(panel_reviews) = 2
    /\ DOMAIN agent_working_memory = {"Tech"}

\* the delays the claim states: 1 before attempt 2, 2 before attempt 3
ClaimedWaits == <<1, 2>>

\* C6: a wrapped node is invoked at most 3 times; the k-th failure short of
\* the last is followed by a wait of 2^(k-1), so the waits are a prefix of
\* <<1, 2>>; a node that completed after two failures was invoked 3 times
\* and waited 1 then 2; a success is followed by no wait.
C6_RetryBackoff ==
    \A n \in WrappedNodes :
        /\ calls[n] <= 3
        /\ failures[n] <= calls[n]
        /\ Len(waits[n]) = (IF failures[n] = 3 THEN 2 ELSE failures[n])
        /\ waits[n] = SubSeq(ClaimedWaits, 1, Len(waits[n]))
        /\ Completed(n) => calls[n] = failures[n] + 1
        /\ (Completed(n) /\ failures[n] = 2) => calls[n] = 3 /\ waits[n] = <<1, 2>>

\* a reviewer that raised twice and returned its review on the third attempt
C6_Witness ==
    /\ Completed("hr_agent") /\ failures["hr_agent"] = 2
    /\ waits["hr_agent"] = <<1, 2>>
    /\ ~IsNone(writes["hr_agent"])

C8_OneExceptionType ==
    /\ run = "raised" =>
          /\ ~IsNone(error) /\ IsNone(result)
          /\ Get(error).type = "WorkflowExecutionError"
          /\ \A n \in Nodes : pc[n] = "raised" => Get(error).msg = Get(raised[n]).msg
    /\ run = "returned" => \A n \in Nodes : pc[n] # "raised"
    /\ run # "raised" => IsNone(error)

\* the consistency validation failed and the run raised
C8_Witness ==
    /\ pc["validate_state"] = "raised" /\ run = "raised"
    /\ Get(raised["validate_state"]).type = "state.StateValidationError"

\* a direct call of the validator on a state that holds both fields
ValidatorCalled ==
    /\ call.op = "validate_panel_memory_consistency" /\ ~IsNone(ret)
    /\ ~IsNone(call.panel_reviews) /\ ~IsNone(call.agent_working_memory)

\* the message lists exactly these roles as missing from memory and as extra
NamesMissingAndExtra(msg, missing, extra) ==
    /\ {"missing", "extra"} \subseteq DOMAIN msg
    /\ msg.missing = missing
    /\ msg.extra = extra

\* C9 as stated: whenever the role set of the reviews differs from the key
\* set of the memory the validator raises StateValidationError with a
\* message naming every missing and every extra role, and it returns
\* normally only when the sets are equal and every memory's role is its key.
C9_MismatchNamesMissingAndExtra ==
    ValidatorCalled =>
        LET P == RolesIn(Get(call.panel_reviews))
            memory == Get(call.agent_working_memory)
            M == DOMAIN memory
            out == Get(ret)
        IN  /\ P # M => /\ out.raises
                        /\ out.type = "state.StateValidationError"
                        /\ NamesMissingAndExtra(out.msg, P \ M, M \ P)
            /\ ~out.raises => P = M /\ \A k \in M : memory[k].agent_role = k

\* C9 amended: as above, but the message names the missing and extra roles
\* when every review role and memory key is canonical; with a non-canonical
\* role or key the message names non-canonical roles instead.
C9_MismatchNamesMissingAndExtraIfCanonical ==
    ValidatorCalled =>
        LET P == RolesIn(Get(call.panel_reviews))
            memory == Get(call.agent_working_memory)
            M == DOMAIN memory
            out == Get(ret)
        IN  /\ P # M =>
                /\ out.raises
                /\ out.type = "state.StateValidationError"
                /\ IF P \cup M \subseteq VALID_AGENT_ROLES
                   THEN NamesMissingAndExtra(out.msg, P \ M, M \ P)
                   ELSE /\ "invalid" \in DOMAIN out.msg
                        /\ out.msg.invalid # {}
                        /\ out.msg.invalid \subseteq (P \cup M) \ VALID_AGENT_ROLES
            /\ ~out.raises => P = M /\ \A k \in M : memory[k].agent_role = k

\* reviews of HR and Tech with a memory of HR only: Tech is named as missing
C9_Witness ==
    /\ ValidatorCalled
    /\ RolesIn(Get(call.panel_reviews)) = {"HR", "Tech"}
    /\ DOMAIN Get(call.agent_working_memory) = {"HR"}
    /\ Get(ret).raises
    /\ Get(ret).msg.missing = {"Tech"}

C11_ValidationFailureFatal ==
    LET n == "validate_state" IN
    /\ runs[n] <= 1 /\ calls[n] <= 1
    /\ attempt[n] = 1 /\ waits[n] = <<>>
    /\ failures[n] >= 1 =>
          /\ pc[n] = "raised" /\ ~IsNone(raised[n])
          /\ ~Scheduled("synthesis") /\ calls["synthesis"] = 0
          /\ ~graph_done /\ IsNone(synthesis_out)
          /\ run \in {"running", "raised"} /\ IsNone(result)
          /\ run = "raised" =>
                /\ ~IsNone(error)
                /\ Get(error).context = Get(raised[n])

\* the validation failed on a state without reviews and the run raised
C11_Witness ==
    /\ failures["validate_state"] = 1
    /\ Get(raised["validate_state"]).type = "graph.StateValidationError"
    /\ panel_reviews = <<>>
    /\ run = "raised"

\* the decision packet a finished call made or tried to make: its rounded
\* score and its recommendation, taken from the packet or from the error of
\* its validation
PacketCallDone == call.op = "_create_decision_packet" /\ ~IsNone(ret)

PacketScore ==
    IF Get(ret).raises THEN Get(ret).msg.overall_fit_score
    ELSE Get(ret).value.overall_fit_score

PacketRecommendation ==
    IF Get(ret).raises THEN Get(ret).msg.recommendation
    ELSE Get(ret).value.recommendation

PacketGapsExist == must_have_gaps_of(call.rubric, call.panel_reviews) # <<>>

\* C12: the recommendation _create_decision_packet chooses is Hire exactly
\* when the score is at least 4.0 and there are no gaps, Lean hire exactly
\* when it is in [3.5, 4.0) and there are no gaps, No exactly when there are
\* gaps, Lean no exactly when it is below 2.5 and there are no gaps, and
\* withheld (None) exactly when it is in [2.5, 3.5) and there are no gaps.
C12_RecommendationPolicy ==
    PacketCallDone =>
        /\ PacketRecommendation = Some("Hire")
              <=> (PacketScore >= 40 /\ ~PacketGapsExist)
        /\ PacketRecommendation = Some("Lean hire")
              <=> (PacketScore >= 35 /\ PacketScore < 40 /\ ~PacketGapsExist)
        /\ PacketRecommendation = Some("No") <=> PacketGapsExist
        /\ PacketRecommendation = Some("Lean no")
              <=> (PacketScore < 25 /\ ~PacketGapsExist)
        /\ PacketRecommendation = NONE
              <=> (PacketScore >= 25 /\ PacketScore < 35 /\ ~PacketGapsExist)

\* a packet with a score of 3.5 or more and a must-have gap was returned: its
\* recommendation is No
C12_Witness ==
    /\ PacketCallDone /\ ~Get(ret).raises
    /\ Get(ret).value.overall_fit_score >= 35
    /\ Get(ret).value.must_have_gaps # <<>>
    /\ Get(ret).value.recommendation = Some("No")

\* the entries of a list of gaps that name a category
GapEntries(gaps, category_name) == {g \in DOMAIN gaps : gaps[g].category = category_name}

\* t tenths is the mean of the scores to one decimal place
IsMeanToOneDecimal(t, scores) ==
    LET d == 10 * Sum(scores) - t * Len(scores)
    IN  2 * (IF d < 0 THEN -d ELSE d) <= Len(scores)

DetectCallDone == call.op = "_detect_disagreements" /\ ~IsNone(ret)

\* the reviews of a list that score a category
Scorers(reviews, category_name) ==
    {r \in DOMAIN reviews :
        \E i \in DOMAIN reviews[r].category_scores :
            reviews[r].category_scores[i].category_name = category_name}

\* the score a review gives a category it scores once
ScoreGiven(review, category_name) ==
    review.category_scores[
        CHOOSE i \in DOMAIN review.category_scores :
            review.category_scores[i].category_name = category_name].score

\* role -> score over the reviews, one per role, that score a category
ScoreMap(reviews, category_name) ==
    [role \in {reviews[r].agent_role : r \in Scorers(reviews, category_name)} |->
        ScoreGiven(reviews[CHOOSE r \in Scorers(reviews, category_name) :
                               reviews[r].agent_role = role], category_name)]

\* at least 2 reviewers scored the category and their scores are 1 or more
\* apart
Disputed(reviews, category_name) ==
    /\ Cardinality(Scorers(reviews, category_name)) >= 2
    /\ \E r, s \in Scorers(reviews, category_name) :
          ScoreGiven(reviews[r], category_name)
              - ScoreGiven(reviews[s], category_name) >= 1

\* C15: on reviews of distinct roles that score no category twice,
\* _detect_disagreements returns, in the order of the rubric's categories,
\* exactly one Disagreement for each category that at least 2 reviewers
\* scored with max - min >= 1 and none for any other; each carries the
\* role -> score map of every reviewer that scored the category, and the
\* difference of its largest and smallest score as score_delta.
C15_OneDisagreementPerDisputedCategory ==
    DetectCallDone =>
        LET reviews == call.panel_reviews
            disputed(category) == Disputed(reviews, category.name)
            expected == SelectSeq(call.rubric.categories, disputed)
            disagreements == Get(ret).value
        IN  /\ ~Get(ret).raises
            /\ Len(disagreements) = Len(expected)
            /\ \A k \in DOMAIN expected :
                  LET scores == ScoreMap(reviews, expected[k].name)
                  IN  /\ disagreements[k].category_name = expected[k].name
                      /\ dict_as_map(disagreements[k].agent_scores) = scores
                      /\ \E r, s \in DOMAIN scores :
                            /\ \A t \in DOMAIN scores :
                                  scores[s] <= scores[t] /\ scores[t] <= scores[r]
                            /\ disagreements[k].score_delta = scores[r] - scores[s]

\* over the rubric of categories A, B, C two reviewers differ by 1 on A,
\* agree on B and differ by 3 on C: two Disagreements, A's before C's
C15_Witness ==
    /\ DetectCallDone /\ ~Get(ret).raises
    /\ Len(call.rubric.categories) = 3
    /\ Len(Get(ret).value) = 2
    /\ Get(ret).value[1].category_name = "A"
    /\ dict_as_map(Get(ret).value[1].agent_scores) = [role \in {"HR", "Tech"} |->
                                                         IF role = "HR" THEN 2 ELSE 3]
    /\ Get(ret).value[1].score_delta = 1
    /\ Get(ret).value[2].category_name = "C"
    /\ Get(ret).value[2].score_delta = 3
    /\ ScoreMap(call.panel_reviews, "B") = [role \in {"HR", "Tech"} |-> 5]

\* the rubric's categories that at least one review scores
RepresentedCategories(rb, reviews) ==
    LET represented(category) == Scorers(reviews, category.name) # {}
    IN  SelectSeq(rb.categories, represented)

\* C16 (as stated; the code does otherwise): the overall_fit_score of a
\* decision packet is the sum over the rubric's categories of weight x mean
\* score of the reviewers that scored the category, divided by the sum of
\* the weights of the categories some reviewer scored, rounded to 1 decimal
\* place, and lies in [0, 5].
C16_ScoreOverRepresentedWeights ==
    PacketCallDone =>
        LET rb == call.rubric
            represented == RepresentedCategories(rb, call.panel_reviews)
            weighted == weighted_score_sum([rb EXCEPT !.categories = represented],
                                           call.panel_reviews, Len(represented))
            weights == Sum([i \in DOMAIN represented |-> represented[i].weight])
        IN  /\ PacketScore \in round1(weighted.num, weighted.den * weights)
            /\ PacketScore >= 0 /\ PacketScore <= 50

SynthesisCallDone == call.op = "synthesis_node" /\ ~IsNone(ret)

\* the number of the rubric's categories the reviews of a call dispute
NumDisputed ==
    Cardinality({i \in DOMAIN call.rubric.categories :
                    Disputed(call.panel_reviews, call.rubric.categories[i].name)})

\* every category is given one score by all the reviews that score it
AllAgree ==
    \A i \in DOMAIN call.rubric.categories :
        \A r, s \in Scorers(call.panel_reviews, call.rubric.categories[i].name) :
            ScoreGiven(call.panel_reviews[r], call.rubric.categories[i].name)
                = ScoreGiven(call.panel_reviews[s], call.rubric.categories[i].name)

ConfidenceFollows(packet, disagreements) ==
    /\ Len(disagreements) = NumDisputed
    /\ packet.disagreements = disagreements
    /\ NumDisputed = 0 => packet.confidence = "high"
    /\ NumDisputed \in {1, 2} => packet.confidence = "medium"
    /\ NumDisputed >= 3 => packet.confidence = "low"
    /\ AllAgree => disagreements = <<>> /\ packet.confidence = "high"

\* C17: a decision packet's confidence is high when 0 categories are
\* disputed, medium when 1 or 2 are and low when 3 or more are, for the
\* packet _create_decision_packet returns on the detected disagreements and
\* for the packet and the disagreements of every update synthesis_node
\* returns; when all reviewers give the same score on every category the
\* disagreements are empty and the confidence is high.
C17_ConfidenceFromDisagreements ==
    /\ (PacketCallDone /\ ~Get(ret).raises) =>
           ConfidenceFollows(Get(ret).value, Get(ret).value.disagreements)
    /\ (SynthesisCallDone /\ ~Get(ret).raises) =>
           ConfidenceFollows(Get(ret).update.decision_packet,
                             Get(ret).update.disagreements)

\* synthesis_node returned an update for two reviewers that differ on all
\* three categories of the rubric: three disagreements, confidence low
C17_Witness ==
    /\ SynthesisCallDone /\ ~Get(ret).raises
    /\ NumDisputed = 3
    /\ Len(Get(ret).update.disagreements) = 3
    /\ Get(ret).update.decision_packet.confidence = "low"

\* C20 (as stated; the code does otherwise): a second run of synthesis_node
\* on the rubric, reviews and working memories of a finished run produces
\* the disagreements, DecisionPacket and InterviewPlan the first produced,
\* the order of priority_areas included.  generated_at is not part of the
\* packet compared.  The rounding of the score is a function of the inputs:
\* runs are compared when they round it alike.
C20_SynthesisDeterministic ==
    (SynthesisCallDone /\ ~Get(ret).raises) =>
        \A second \in synthesis_node_on(Some(call.rubric), call.panel_reviews,
                                        call.agent_working_memory) :
            (/\ ~second.raises
             /\ second.update.decision_packet.overall_fit_score
                    = Get(ret).update.decision_packet.overall_fit_score)
                => second.update = Get(ret).update

DisagreementCallDone == call.op = "Disagreement" /\ ~IsNone(ret)

\* max - min of the scores of a non-empty dict
Spread(agent_scores) ==
    CHOOSE d \in 0..10 :
        \E i, j \in DOMAIN agent_scores :
            /\ d = agent_scores[i].value - agent_scores[j].value
            /\ \A k \in DOMAIN agent_scores :
                  /\ agent_scores[j].value <= agent_scores[k].value
                  /\ agent_scores[k].value <= agent_scores[i].value

\* C19: Disagreement(...) raises when agent_scores is empty or its
\* max - min is below 1, when a score is outside 0..5 and when a key is not a
\* canonical role, and otherwise returns an object whose score_delta is
\* max - min; every Disagreement _detect_disagreements returns and every one
\* in an update of synthesis_node, enriched or not, has score_delta >= 1.
C19_NoDisagreementBelowOne ==
    /\ DisagreementCallDone =>
          LET agent_scores == call.agent_scores
              refused ==
                  \/ agent_scores = <<>>
                  \/ Spread(agent_scores) < 1
                  \/ \E i \in DOMAIN agent_scores :
                        agent_scores[i].value < 0 \/ agent_scores[i].value > 5
                  \/ \E i \in DOMAIN agent_scores :
                        agent_scores[i].key \notin VALID_AGENT_ROLES
          IN  /\ Get(ret).raises <=> refused
              /\ ~Get(ret).raises =>
                    /\ Get(ret).value.score_delta = Spread(agent_scores)
                    /\ Get(ret).value.score_delta >= 1
    /\ (DetectCallDone /\ ~Get(ret).raises) =>
          \A k \in DOMAIN Get(ret).value : Get(ret).value[k].score_delta >= 1
    /\ (SynthesisCallDone /\ ~Get(ret).raises) =>
          /\ \A k \in DOMAIN Get(ret).update.disagreements :
                Get(ret).update.disagreements[k].score_delta >= 1
          /\ \A k \in DOMAIN Get(ret).update.decision_packet.disagreements :
                Get(ret).update.decision_packet.disagreements[k].score_delta >= 1

\* Disagreement(agent_scores={"HR": 3, "Tech": 3}) raised
C19_Witness ==
    /\ DisagreementCallDone
    /\ call.agent_scores = <<[key |-> "HR", value |-> 3], [key |-> "Tech", value |-> 3]>>
    /\ Get(ret).raises
    /\ Get(ret).msg.text = "shows no significant disagreement"

\* a state the validation of DecisionPacket is there to exclude; the score
\* is in tenths
Misaligned(overall_fit_score, recommendation, must_have_gaps) ==
    \/ recommendation = Some("Hire") /\ must_have_gaps # <<>>
    \/ overall_fit_score >= 40 /\ recommendation \in {Some("Lean no"), Some("No")}
    \/ overall_fit_score < 20 /\ recommendation \in {Some("Hire"), Some("Lean hire")}

\* the outcome of a construction or assignment for the fields it would give
\* the packet: it raises when they are misaligned, the packet it returns has
\* them and is not misaligned, and with a score within 0.0..5.0 and no
\* recommendation it returns
AlignmentEnforced(outcome, overall_fit_score, recommendation, must_have_gaps) ==
    /\ Misaligned(overall_fit_score, recommendation, must_have_gaps) => outcome.raises
    /\ ~outcome.raises =>
          /\ outcome.value.overall_fit_score = overall_fit_score
          /\ outcome.value.recommendation = recommendation
          /\ outcome.value.must_have_gaps = must_have_gaps
          /\ ~Misaligned(outcome.value.overall_fit_score, outcome.value.recommendation,
                         outcome.value.must_have_gaps)
    /\ (recommendation = NONE /\ overall_fit_score \in 0..50) => ~outcome.raises

\* C14: constructing a DecisionPacket, or assigning a field of one, raises
\* when the result would have recommendation Hire with non-empty
\* must_have_gaps, a score of 4.0 or more with Lean no or No, or a score
\* below 2.0 with Hire or Lean hire; no packet returned is in such a state;
\* and without a recommendation every score from 0.0 to 5.0 is accepted.
C14_MisalignedPacketRefused ==
    /\ (call.op = "DecisionPacket" /\ ~IsNone(ret)) =>
          AlignmentEnforced(Get(ret), call.overall_fit_score, call.recommendation,
                            call.must_have_gaps)
    /\ (call.op = "DecisionPacket.__setattr__" /\ ~IsNone(ret)) =>
          AlignmentEnforced(
              Get(ret),
              IF call.name = "overall_fit_score" THEN call.value
              ELSE call.packet.overall_fit_score,
              IF call.name = "recommendation" THEN call.value
              ELSE call.packet.recommendation,
              IF call.name = "must_have_gaps" THEN call.value
              ELSE call.packet.must_have_gaps)

\* a packet with a score of 4.0, no gaps and Hire was built, and
\* giving it a must-have gap raised
C14_Witness ==
    /\ call.op = "DecisionPacket.__setattr__" /\ ~IsNone(ret)
    /\ call.packet.recommendation = Some("Hire")
    /\ call.packet.overall_fit_score = 40
    /\ call.packet.must_have_gaps = <<>>
    /\ call.name = "must_have_gaps" /\ call.value = <<"Critical Skill">>
    /\ Get(ret).raises
    /\ Get(ret).msg.text = "Recommendation is 'Hire' but must-have gaps exist"

\* the category scores name every expected category exactly once and no
\* other category
CoversExactlyOnce(category_scores, expected_categories) ==
    /\ \A e \in DOMAIN expected_categories :
          Cardinality({i \in DOMAIN category_scores :
                          category_scores[i].category_name = expected_categories[e]}) = 1
    /\ \A i \in DOMAIN category_scores :
          \E e \in DOMAIN expected_categories :
              category_scores[i].category_name = expected_categories[e]

\* C18: pass 2 of the HR reviewer returns a review exactly when the category
\* scores the LLM answered name every rubric category exactly once and no
\* other, in any order, and the role is the reviewer's; the review returned
\* is the LLM's with these scores.  An AgentReview constructed with
\* expected_rubric_categories is accepted exactly under the same condition.
C18_ReviewCoversRubricExactlyOnce ==
    /\ (call.op = "_evaluate_with_memory" /\ ~IsNone(ret)) =>
          /\ ~Get(ret).raises
                <=> /\ CoversExactlyOnce(call.llm_output.category_scores,
                                         call.expected_categories)
                    /\ call.llm_output.agent_role = "HR"
          /\ ~Get(ret).raises =>
                Get(ret).value.category_scores = call.llm_output.category_scores
    /\ (call.op = "AgentReview" /\ ~IsNone(ret)
            /\ ~IsNone(call.expected_rubric_categories)) =>
          (~Get(ret).raises
              <=> CoversExactlyOnce(call.category_scores,
                                    Get(call.expected_rubric_categories)))

\* the LLM scored B, A and B again for a rubric of A and B: pass 2 raised
C18_Witness ==
    /\ call.op = "_evaluate_with_memory" /\ ~IsNone(ret)
    /\ call.expected_categories = <<"A", "B">>
    /\ category_names_of(call.llm_output.category_scores) = <<"B", "A", "B">>
    /\ call.llm_output.agent_role = "HR"
    /\ Get(ret).raises

\* the texts of the errors of DecisionPacket.validate_recommendation_alignment
AlignmentErrorTexts ==
    {"Recommendation is 'Hire' but must-have gaps exist",
     "(strong) but recommendation seems inconsistent",
     "(weak) but recommendation seems inconsistent"}

\* C26 (as stated; the code does otherwise): the construction of the packet
\* in _create_decision_packet is never refused by
\* validate_recommendation_alignment, whatever the rubric and the reviews,
\* a score of 4.0 or more with a must-have category averaging below 3.0
\* included.
C26_ChosenRecommendationAccepted ==
    PacketCallDone =>
        ~(/\ Get(ret).raises
          /\ Get(ret).type = "ValidationError"
          /\ Get(ret).msg.text \in AlignmentErrorTexts)

\* C27 (as stated; the code does otherwise): synthesis_node, on a rubric,
\* reviews of distinct roles that cover the rubric and a memory per role (a
\* state the consistency validation passes), returns disagreements, a
\* decision packet and an interview plan; so it does when all the reviewers
\* agree on every category, no must-have category averages below 3.0 and
\* the memories hold no ambiguities, missing information or contradictory
\* cross-references.
C27_SynthesisReturns ==
    (/\ SynthesisCallDone
     /\ DOMAIN call.agent_working_memory = RolesIn(call.panel_reviews)
     /\ \A r \in DOMAIN call.panel_reviews :
           \A i \in DOMAIN call.rubric.categories :
               r \in Scorers(call.panel_reviews, call.rubric.categories[i].name)
     /\ AllAgree
     /\ ~PacketGapsExist)
        => ~Get(ret).raises

\* C29 (as stated; the code does otherwise): the time_estimate_minutes of
\* the interview plan synthesis_node returns is 15 times the number of
\* roles of questions_by_interviewer whose list holds at least one question.
C29_TimeEstimateCountsAskingRoles ==
    (SynthesisCallDone /\ ~Get(ret).raises) =>
        LET plan == Get(ret).update.interview_plan
            asking == {i \in DOMAIN plan.questions_by_interviewer :
                          plan.questions_by_interviewer[i].value # <<>>}
        IN  plan.time_estimate_minutes = 15 * Cardinality(asking)

\* the orders a list of n reviews can arrive in
ReviewOrders(n) ==
    {p \in [1..n -> 1..n] : \A i, j \in 1..n : p[i] = p[j] => i = j}

\* the categories of a list of disagreements, each with its role -> score map
DisagreementMaps(disagreements) ==
    {[category_name |-> disagreements[i].category_name,
      agent_scores |-> dict_as_map(disagreements[i].agent_scores)]
        : i \in DOMAIN disagreements}

\* two updates of synthesis_node that agree on what the decision packet
\* says, on the disagreements and on the questions of each role
SameSynthesis(a, b) ==
    /\ a.decision_packet.overall_fit_score = b.decision_packet.overall_fit_score
    /\ a.decision_packet.confidence = b.decision_packet.confidence
    /\ a.decision_packet.must_have_gaps = b.decision_packet.must_have_gaps
    /\ a.decision_packet.recommendation = b.decision_packet.recommendation
    /\ DisagreementMaps(a.disagreements) = DisagreementMaps(b.disagreements)
    /\ a.decision_packet.top_strengths = b.decision_packet.top_strengths
    /\ a.decision_packet.top_risks = b.decision_packet.top_risks
    /\ dict_as_map(a.interview_plan.questions_by_interviewer)
           = dict_as_map(b.interview_plan.questions_by_interviewer)

\* C21 (as stated; the code does otherwise): synthesis_node on the reviews
\* of a finished run taken in any other order returns too, with the same
\* overall_fit_score, confidence, must_have_gaps and recommendation, the
\* same disagreement categories with the same role -> score maps, the same
\* top strengths and risks and the same questions for each role.  The
\* memory map is a map here: it has no order to vary.  Runs are compared
\* when they round the score alike.
C21_SynthesisIgnoresReviewOrder ==
    (SynthesisCallDone /\ ~Get(ret).raises) =>
        \A p \in ReviewOrders(Len(call.panel_reviews)) :
            \A other \in synthesis_node_on(
                             Some(call.rubric),
                             [i \in DOMAIN call.panel_reviews |-> call.panel_reviews[p[i]]],
                             call.agent_working_memory) :
                /\ ~other.raises
                /\ other.update.decision_packet.overall_fit_score
                       = Get(ret).update.decision_packet.overall_fit_score
                       => SameSynthesis(Get(ret).update, other.update)

\* the reviewer roles the configuration asks for
ConfiguredPanel ==
    {"HR", "Tech", "Compliance"}
        \cup (IF settings.enable_product_agent THEN {"Product"} ELSE {})

\* the orchestrator's superstep has ended and its successors are scheduled
FanOutDone == \E n \in Nodes \ {"orchestrator"} : Scheduled(n)

\* C22 (as stated; the code does otherwise): the reviewer branches the
\* fan-out schedules are those of HR, Tech and Compliance, and of Product
\* too when enable_product_agent is set; the reviews and the working
\* memories the fan-in hands to validate_state are those of these roles.
C22_FanOutFollowsConfiguration ==
    /\ FanOutDone =>
          {NodeRole(n) : n \in {m \in PanelNodes : Scheduled(m)}} = ConfiguredPanel
    /\ Scheduled("validate_state") =>
          /\ RolesIn(panel_reviews) = ConfiguredPanel
          /\ DOMAIN agent_working_memory = ConfiguredPanel

-----------------------------------------------------------------------------
(* A reviewer node called on a state that holds a rubric and, as the state *)
(* fixtures of tests/conftest.py do, reviews and working memories of some  *)
(* of the roles already.                                                   *)

\* the reviews and memories of a state in which the roles of K have reported
ReportedReviews(K) ==
    LET reported(role) == role \in K
        roles == SelectSeq(<<"HR", "Tech", "Compliance">>, reported)
    IN  [i \in DOMAIN roles |-> ReviewOf(roles[i], 1)]

ReportedMemory(K) == [role \in K |-> MemoryOf(role, 1)]

InitReviewer ==
    /\ job_description = "jd"
    /\ resume \in {"", "cv"}
    /\ settings = [enable_product_agent |-> FALSE]
    /\ rubric = Some([categories |-> RubricCategories, attempt |-> 1])
    /\ \E K \in SUBSET {"HR", "Tech", "Compliance"} :
          /\ panel_reviews = ReportedReviews(K)
          /\ agent_working_memory = ReportedMemory(K)
    /\ synthesis_out = NONE
    /\ \E n \in PanelNodes :
          /\ active = {n}
          /\ pc = [m \in Nodes |-> CASE m = n -> "pass1"
                                     [] m = "orchestrator" -> "done"
                                     [] OTHER -> "idle"]
          /\ runs = [m \in Nodes |-> IF m \in {n, "orchestrator"} THEN 1 ELSE 0]
          /\ seen_at_start = [m \in Nodes |-> IF m = n THEN {"orchestrator"} ELSE {}]
    /\ graph_done = FALSE
    /\ attempt = [m \in Nodes |-> 1]
    /\ calls = [m \in Nodes |-> IF m = "orchestrator" THEN 1 ELSE 0]
    /\ waits = [m \in Nodes |-> <<>>]
    /\ last_exception = [m \in Nodes |-> NONE]
    /\ failures = [m \in Nodes |-> 0]
    /\ raised = [m \in Nodes |-> NONE]
    /\ working_memory = [m \in PanelNodes |-> NONE]
    /\ generations = [m \in PanelNodes |-> 0]
    /\ job = NONE
    /\ writes = [m \in Nodes |-> NONE]
    /\ done_order = <<>>
    /\ run = "running"
    /\ result = NONE
    /\ error = NONE
    /\ call = NoCall
    /\ ret = NONE

\* one more llm.invoke call of reviewer node n
Generation(n) == generations' = [generations EXCEPT ![n] = @ + llm_invocations]

NextReviewer ==
    \/ \E n \in PanelNodes : Pass1(n) /\ Generation(n)
    \/ \E n \in PanelNodes : Pass2(n) /\ Generation(n)
    \/ SuperstepEnd

SpecReviewer == InitReviewer /\ [][NextReviewer]_vars

\* C23 (as stated; the code does otherwise): the update a reviewer node
\* returns holds a list of one review, its own, and a working-memory map
\* whose only key is the node's role, whatever agent_working_memory the
\* state of the call holds.
C23_ReviewerWritesOwnKeyOnly ==
    \A n \in PanelNodes :
        ~IsNone(writes[n]) =>
            LET update == Get(writes[n])
            IN  /\ Len(Get(update.panel_reviews)) = 1
                /\ Get(update.panel_reviews)[1].agent_role = NodeRole(n)
                /\ DOMAIN Get(update.agent_working_memory) = {NodeRole(n)}

\* C24: in each reviewer branch pass 2 runs only on the working memory pass
\* 1 of the same role returned in the same attempt: while a node is at pass
\* 2 it holds a memory of its own role made in the current attempt, pass 1
\* having been invoked once in each attempt; a node at pass 1, or one whose
\* exception left it, holds none, so pass 2 is not entered after a failure
\* of pass 1; and the review a node returns was made in the attempt of, and
\* from, the memory returned with it.
C24_PassesSequential ==
    \A n \in PanelNodes :
        /\ pc[n] = "pass2" =>
              /\ ~IsNone(working_memory[n])
              /\ Get(working_memory[n]).attempt = attempt[n]
              /\ Get(working_memory[n]).agent_role = NodeRole(n)
              /\ calls[n] = attempt[n]
        /\ pc[n] \in {"idle", "pass1", "raised"} => IsNone(working_memory[n])
        /\ ~IsNone(writes[n]) =>
              LET review == Get(Get(writes[n]).panel_reviews)[1]
                  memory == Get(Get(writes[n]).agent_working_memory)[NodeRole(n)]
              IN  /\ review.memory_attempt = memory.attempt
                  /\ review.attempt = memory.attempt
                  /\ memory.attempt = attempt[n]

\* the HR node returned in its second attempt, after a failure in the
\* first: both passes ran again, the review is made from the memory of the
\* second attempt
C24_Witness ==
    /\ ~IsNone(writes["hr_agent"])
    /\ attempt["hr_agent"] = 2
    /\ calls["hr_agent"] = 2
    /\ failures["hr_agent"] = 1
    /\ Get(Get(writes["hr_agent"]).panel_reviews)[1].memory_attempt = 2

\* C25: pass 1 of a reviewer fails and stores nothing when the memory the
\* LLM returns carries another role or a category that is not a category of
\* the rubric: the memory a node holds after pass 1, the memory it returns
\* and every memory of agent_working_memory has the role of its node or key
\* and categories of the rubric only; a node that has not returned has
\* written nothing.
C25_StoredMemoryOfRoleAndRubric ==
    /\ \A n \in PanelNodes :
          /\ ~IsNone(working_memory[n]) =>
                /\ Get(working_memory[n]).agent_role = NodeRole(n)
                /\ Get(working_memory[n]).categories \subseteq Get(rubric).categories
          /\ ~IsNone(writes[n]) =>
                LET memory == Get(Get(writes[n]).agent_working_memory)
                IN  \A key \in DOMAIN memory :
                        /\ memory[key].agent_role = key
                        /\ memory[key].categories \subseteq Get(rubric).categories
          /\ pc[n] \in {"pass1", "pass2", "raised"} =>
                /\ IsNone(writes[n])
                /\ NodeRole(n) \notin DOMAIN agent_working_memory
                /\ NodeRole(n) \notin RolesIn(panel_reviews)
    /\ \A key \in DOMAIN agent_working_memory :
          /\ agent_working_memory[key].agent_role = key
          /\ agent_working_memory[key].categories \subseteq Get(rubric).categories

\* pass 1 of the HR node failed on a category outside the rubric in each of
\* its attempts: the exception left the node, which stored nothing
C25_Witness ==
    /\ pc["hr_agent"] = "raised"
    /\ Get(raised["hr_agent"]).msg
           = "Working memory contains observation categories that do not match rubric categories"
    /\ IsNone(working_memory["hr_agent"])
    /\ IsNone(writes["hr_agent"])
    /\ agent_working_memory = EmptyMap

-----------------------------------------------------------------------------
(* Direct calls of _create_interview_plan on a rubric of four categories,  *)
(* three reviews that score each of them, and working memories with and    *)
(* without findings: enough gap and disagreement questions to fill a       *)
(* role's list before the memory questions arrive.                         *)

PlanRubrics ==
    {[role_title |-> "Engineer",
      categories |-> <<RubricCategory("A", 25, TRUE), RubricCategory("B", 25, TRUE),
                       RubricCategory("C", 25, TRUE), RubricCategory("D", 25, TRUE)>>],
     [role_title |-> "Engineer",
      categories |-> <<RubricCategory("A", 25, TRUE), RubricCategory("B", 25, TRUE),
                       RubricCategory("C", 25, TRUE), RubricCategory("D", 25, FALSE)>>]}

\* the scores HR, Tech and Compliance give one category
PlanScoreRows == {<<2, 3, 3>>, <<3, 3, 3>>, <<5, 3, 3>>, <<2, 2, 3>>, <<3, 5, 5>>}

\* the reviews of the three roles, rows[c] being the scores of category c
PlanReviews(rb, rows) ==
    [r \in 1..3 |->
        SynthReview(SynthRoles[r],
                    [c \in DOMAIN rb.categories |->
                        [category_name |-> rb.categories[c].name,
                         score |-> rows[c][r]]])]

CrossReference(claim, contradictory_evidence, assessment) ==
    [claim |-> claim, contradictory_evidence |-> contradictory_evidence,
     assessment |-> assessment]

\* a WorkingMemory with more findings of each kind than a plan takes
RichMemory(role) ==
    [agent_role |-> role,
     key_observations |-> [i \in 1..3 |-> [category |-> "A", observation |-> i]],
     cross_references |-> <<CrossReference("c1", <<>>, "well-supported"),
                            CrossReference("c2", <<"e">>, "partially-supported"),
                            CrossReference("c3", <<"e">>, "contradictory")>>,
     missing_information |-> <<"m1", "m2", "m3">>,
     ambiguities |-> <<"a1", "a2", "a3">>]

\* the memory maps of a call: none, one memory with a single ambiguity, and
\* a memory with findings for each reviewer and for a role without review
PlanMemoryMaps ==
    {EmptyMap,
     [role \in {"HR"} |-> SynthMemory(role, "A", <<"a1">>)],
     [role \in {"HR", "Tech", "Compliance", "Product"} |-> RichMemory(role)]}

InitPlan ==
    /\ IdleWorkflow
    /\ ret = NONE
    /\ \E rb \in PlanRubrics :
         \E rows \in [DOMAIN rb.categories -> PlanScoreRows] :
           \E m \in PlanMemoryMaps :
             call = [op |-> "_create_interview_plan", rubric |-> rb,
                     panel_reviews |-> PlanReviews(rb, rows),
                     agent_working_memory |-> m]

\* the disagreements handed over are those detected on the reviews
CallCreateInterviewPlan ==
    /\ call.op = "_create_interview_plan" /\ IsNone(ret)
    /\ \E o \in create_interview_plan(
                    call.rubric, call.panel_reviews,
                    detect_disagreements(call.panel_reviews, call.rubric).value,
                    call.agent_working_memory) :
          ret' = Some(o)
    /\ UNCHANGED call
    /\ UNCHANGED_workflow

NextPlan == CallCreateInterviewPlan

SpecPlan == InitPlan /\ [][NextPlan]_vars

PlanCallDone == call.op = "_create_interview_plan" /\ ~IsNone(ret)

PlanReturned == PlanCallDone /\ ~Get(ret).raises

\* the review of a role among the reviews of the call
ReviewBy(role) ==
    call.panel_reviews[CHOOSE r \in DOMAIN call.panel_reviews :
                           call.panel_reviews[r].agent_role = role]

\* the scores of the reviews of the call, each scoring the category, sum to
\* less than 3 apiece
MeanBelowThree(category_name) ==
    Sum([r \in DOMAIN call.panel_reviews |->
            ScoreGiven(call.panel_reviews[r], category_name)])
        < 3 * Len(call.panel_reviews)

\* the role of the first review, in the order of the call, that gives the
\* category its lowest score
FirstLowestRole(category_name) ==
    LET reviews == call.panel_reviews
        lowest(r) == \A s \in DOMAIN reviews :
                        ScoreGiven(reviews[r], category_name)
                            <= ScoreGiven(reviews[s], category_name)
    IN  reviews[SetMin({r \in DOMAIN reviews : lowest(r)})].agent_role

\* what a question is asked for and about
Asks(source, about) == [source |-> source, about |-> about]

\* the questions that arrive for a role, in the order of their arrival: for
\* the must-have categories that average below 3.0 and the role scored
\* below 3, for the disputed categories the role scored lowest, then for up
\* to 2 ambiguities, up to 2 missing pieces of information and the first
\* contradictory cross-reference of the role's memory
Arrivals(role) ==
    LET gap(category) ==
            /\ category.is_must_have
            /\ MeanBelowThree(category.name)
            /\ ScoreGiven(ReviewBy(role), category.name) < 3
        gaps == SelectSeq(call.rubric.categories, gap)
        asked(category) ==
            /\ Disputed(call.panel_reviews, category.name)
            /\ FirstLowestRole(category.name) = role
        disputes == SelectSeq(call.rubric.categories, asked)
        held == role \in DOMAIN call.agent_working_memory
        memory == call.agent_working_memory[role]
        contradicts(ref) ==
            ref.assessment = "contradictory" \/ Len(ref.contradictory_evidence) > 0
        contradictions == SelectSeq(memory.cross_references, contradicts)
    IN  [i \in DOMAIN gaps |-> Asks("must-have gap", gaps[i].name)]
        \o [i \in DOMAIN disputes |-> Asks("disagreement", disputes[i].name)]
        \o (IF ~held THEN <<>>
            ELSE [i \in 1..(IF Len(memory.ambiguities) < 2
                            THEN Len(memory.ambiguities) ELSE 2) |->
                     Asks("ambiguity", memory.ambiguities[i])]
                 \o [i \in 1..(IF Len(memory.missing_information) < 2
                               THEN Len(memory.missing_information) ELSE 2) |->
                        Asks("missing information", memory.missing_information[i])]
                 \o [i \in 1..(IF contradictions = <<>> THEN 0 ELSE 1) |->
                        Asks("contradiction", contradictions[i].claim)])

ProbingQuestions(plan, category_name) ==
    UNION {{<<plan.questions_by_interviewer[k].key, i>> :
               i \in {j \in DOMAIN plan.questions_by_interviewer[k].value :
                         LET question == plan.questions_by_interviewer[k].value[j]
                         IN  /\ question.question = Asks("disagreement", category_name)
                             /\ question.category = category_name}} :
           k \in DOMAIN plan.questions_by_interviewer}

\* the categories of the rubric the reviews of the call dispute
DisputedCategories ==
    {call.rubric.categories[i].name : i \in
        {j \in DOMAIN call.rubric.categories :
            Disputed(call.panel_reviews, call.rubric.categories[j].name)}}

\* the number of questions that arrive for the role before the probing
\* question of the category does
ArrivedBefore(role, category_name) ==
    LET arrivals == Arrivals(role)
    IN  (CHOOSE i \in DOMAIN arrivals :
            arrivals[i] = Asks("disagreement", category_name)) - 1

\* C30 (as stated; the code does otherwise at the cap): for every
\* disagreement the plan holds exactly one probing question about its
\* category, in the list of the first role of agent_scores with the lowest
\* score, and the category is one of priority_areas.
C30_OneProbingQuestionPerDisagreement ==
    PlanReturned =>
        \A category_name \in DisputedCategories :
            /\ Cardinality(ProbingQuestions(Get(ret).value, category_name)) = 1
            /\ \A place \in ProbingQuestions(Get(ret).value, category_name) :
                  place[1] = FirstLowestRole(category_name)
            /\ \E i \in DOMAIN Get(ret).value.priority_areas :
                  Get(ret).value.priority_areas[i] = category_name

\* C30 (amended): for every disagreement the category is one of
\* priority_areas, and the plan holds its probing question once, in the
\* list of the first role of agent_scores with the lowest score, when fewer
\* than 7 questions arrived for that role before it, and not at all when 7
\* or more did.
C30_OneProbingQuestionUnlessFull ==
    PlanReturned =>
        \A category_name \in DisputedCategories :
            LET probing == ProbingQuestions(Get(ret).value, category_name)
                role == FirstLowestRole(category_name)
            IN  /\ Cardinality(probing)
                      = (IF ArrivedBefore(role, category_name) < 7 THEN 1 ELSE 0)
                /\ \A place \in probing : place[1] = role
                /\ \E i \in DOMAIN Get(ret).value.priority_areas :
                      Get(ret).value.priority_areas[i] = category_name

\* HR scored A, B, C and D lowest and below 3: the probing questions of A,
\* B and C are in its list behind 4 gap questions, D's found the list full
\* and is in no list, and D is a priority area
C30_Witness ==
    /\ PlanReturned
    /\ DisputedCategories = {"A", "B", "C", "D"}
    /\ \A category_name \in DisputedCategories : FirstLowestRole(category_name) = "HR"
    /\ ArrivedBefore("HR", "D") = 7
    /\ ProbingQuestions(Get(ret).value, "D") = {}
    /\ ProbingQuestions(Get(ret).value, "C") = {<<"HR", 7>>}
    /\ \E i \in DOMAIN Get(ret).value.priority_areas :
          Get(ret).value.priority_areas[i] = "D"

\* the checks of the validator a pair of reviews and memory violates:
\* "a" a review of a role that is not canonical, "b" a memory key that is
\* not canonical, "c" roles of the reviews other than the keys of the
\* memory, "d" a memory whose agent_role is not its key
ViolatedChecks(reviews, memory) ==
    (IF RolesIn(reviews) \subseteq VALID_AGENT_ROLES THEN {} ELSE {"a"})
    \cup (IF DOMAIN memory \subseteq VALID_AGENT_ROLES THEN {} ELSE {"b"})
    \cup (IF RolesIn(reviews) = DOMAIN memory THEN {} ELSE {"c"})
    \cup (IF \A key \in DOMAIN memory : memory[key].agent_role = key THEN {} ELSE {"d"})

\* the message of each check
CheckText(check) ==
    CASE check = "a" -> "Invalid agent roles in panel_reviews"
      [] check = "b" -> "Invalid agent roles in agent_working_memory"
      [] check = "c" -> "Panel reviews and agent working memory have mismatched agent roles"
      [] check = "d" -> "WorkingMemory agent_role mismatch"

\* C31: on a state that holds reviews and memory the validator raises the
\* error of the first check, in the order a, b, c, d, that the state
\* violates, whichever other checks it violates too, and returns normally
\* when it violates none.  (That the validation changes no field is checked
\* on the node, with C32.)
C31_FirstViolatedCheckRaised ==
    ValidatorCalled =>
        LET violated == ViolatedChecks(Get(call.panel_reviews),
                                       Get(call.agent_working_memory))
            out == Get(ret)
        IN  /\ violated = {} <=> ~out.raises
            /\ \A check \in violated :
                  (\A other \in violated :
                      other = check \/ \E i, j \in 1..4 :
                          /\ i < j
                          /\ <<"a", "b", "c", "d">>[i] = check
                          /\ <<"a", "b", "c", "d">>[j] = other)
                      => /\ out.raises
                         /\ out.type = "state.StateValidationError"
                         /\ out.msg.text = CheckText(check)

\* a review of a role that is not canonical with a memory under a key that
\* is not canonical either, whose agent_role is another label: checks a, b
\* and d are violated, the error is that of a
C31_Witness ==
    /\ ValidatorCalled
    /\ {"a", "b", "d"} \subseteq ViolatedChecks(Get(call.panel_reviews),
                                                Get(call.agent_working_memory))
    /\ Get(ret).raises
    /\ Get(ret).msg.text = "Invalid agent roles in panel_reviews"

\* the fan-in is over: the validation or the synthesis is the running step,
\* or the graph has finished after them
AfterFanIn == active \cap {"validate_state", "synthesis"} # {} \/ graph_done

\* C32: the run state is only extended.  A rubric that is set is never
\* changed; the validation returns the empty update and the step in which it
\* runs changes no field; from the end of the fan-in on, rubric, panel_reviews
\* and agent_working_memory stay as they are, and the update of the synthesis
\* holds the synthesis fields only.
C32_StateOnlyExtended ==
    [][/\ ~IsNone(rubric) => rubric' = rubric
       /\ ~IsNone(writes'["validate_state"])
             => Get(writes'["validate_state"]) = EmptyUpdate
       /\ active = {"validate_state"}
             => UNCHANGED <<rubric, panel_reviews, agent_working_memory, synthesis_out>>
       /\ AfterFanIn => UNCHANGED <<rubric, panel_reviews, agent_working_memory>>
       /\ ~IsNone(writes'["synthesis"])
             => LET u == Get(writes'["synthesis"])
                IN  /\ IsNone(u.rubric) /\ IsNone(u.panel_reviews)
                    /\ IsNone(u.agent_working_memory)
                    /\ ~IsNone(u.synthesis_out)]_vars

\* the graph has finished with the three outputs of the synthesis written
\* next to the rubric, three reviews and their memory
C32_Witness ==
    /\ graph_done
    /\ ~IsNone(synthesis_out)
    /\ ~IsNone(rubric)
    /\ Len(panel_reviews) = 3
    /\ DOMAIN agent_working_memory = {"HR", "Tech", "Compliance"}
    /\ Get(writes["validate_state"]) = EmptyUpdate

EnrichCallDone == call.op = "_enrich_disagreements_with_memory" /\ ~IsNone(ret)

\* the entries appended to a reason for a role
ContextOf(reason, role) ==
    {i \in DOMAIN reason : "agent_role" \in DOMAIN reason[i] /\ reason[i].agent_role = role}

\* the number of observations the entries of a role hold
ObservationsNoted(reason, role) ==
    Sum([i \in 1..Len(reason) |->
            IF i \in ContextOf(reason, role) /\ reason[i].kind = "noted"
            THEN Len(reason[i].observations) ELSE 0])

\* C33: _enrich_disagreements_with_memory returns as many disagreements as it
\* is given, in the same order, each with the category_name, agent_scores and
\* resolution_approach it had and a reason that starts with the reason it
\* had; what is appended names roles of agent_scores only and holds at most
\* 2 observations for each.
C33_EnrichmentPreservesDisagreements ==
    EnrichCallDone =>
        LET given == call.disagreements
            out == Get(ret)
        IN  /\ ~out.raises
            /\ Len(out.value) = Len(given)
            /\ \A i \in DOMAIN given :
                  LET before == given[i]
                      after == out.value[i]
                  IN  /\ after.category_name = before.category_name
                      /\ after.agent_scores = before.agent_scores
                      /\ after.resolution_approach = before.resolution_approach
                      /\ Len(after.reason) >= Len(before.reason)
                      /\ SubSeq(after.reason, 1, Len(before.reason)) = before.reason
                      /\ \A j \in (Len(before.reason) + 1)..Len(after.reason) :
                            "agent_role" \in DOMAIN after.reason[j]
                                => after.reason[j].agent_role
                                       \in dict_keys(before.agent_scores)
                      /\ \A role \in dict_keys(before.agent_scores) :
                            ObservationsNoted(after.reason, role) <= 2

\* a disagreement was enriched from a memory that holds three observations of
\* its category for one of its roles: two of them are appended
C33_Witness ==
    /\ EnrichCallDone
    /\ \E i \in DOMAIN call.disagreements :
          \E role \in dict_keys(call.disagreements[i].agent_scores) :
             /\ role \in DOMAIN call.agent_working_memory
             /\ Len(call.agent_working_memory[role].key_observations) = 3
             /\ ObservationsNoted(Get(ret).value[i].reason, role) = 2

\* the entries of a reason that note a role has no observation of the category
NotedAbsent(reason, role) ==
    {i \in ContextOf(reason, role) : reason[i].kind = "no specific observations"}

\* C34 as stated: every role of a disagreement's agent_scores that has no
\* WorkingMemory in the map gets the note that no specific observations were
\* recorded.
C34_MissingMemoryNoted ==
    EnrichCallDone =>
        \A i \in DOMAIN call.disagreements :
            \A role \in dict_keys(call.disagreements[i].agent_scores) :
                role \notin DOMAIN call.agent_working_memory
                    => NotedAbsent(Get(ret).value[i].reason, role) # {}

\* C34 amended: when the map holds a memory at all, every role of
\* agent_scores whose WorkingMemory is in the map without an observation of
\* the category gets the note, once; a role whose WorkingMemory is missing
\* gets no entry.
C34_UnobservedNotedMissingSkipped ==
    EnrichCallDone =>
        \A i \in DOMAIN call.disagreements :
            \A role \in dict_keys(call.disagreements[i].agent_scores) :
                LET reason == Get(ret).value[i].reason
                    memory == call.agent_working_memory
                IN  /\ (/\ role \in DOMAIN memory
                        /\ \A o \in DOMAIN memory[role].key_observations :
                              ~category_in(call.disagreements[i].category_name,
                                           memory[role].key_observations[o].category))
                           => Cardinality(NotedAbsent(reason, role)) = 1
                    /\ role \notin DOMAIN memory => ContextOf(reason, role) = {}

\* a disagreement between a role whose memory has no observation of the
\* category, which is noted, and a role without memory, which is passed over
C34_Witness ==
    /\ EnrichCallDone
    /\ \E i \in DOMAIN call.disagreements :
          \E noted, skipped \in dict_keys(call.disagreements[i].agent_scores) :
             /\ noted \in DOMAIN call.agent_working_memory
             /\ skipped \notin DOMAIN call.agent_working_memory
             /\ NotedAbsent(Get(ret).value[i].reason, noted) # {}
             /\ ContextOf(Get(ret).value[i].reason, skipped) = {}

DeduplicateCallDone == call.op = "_deduplicate_strengths_risks" /\ ~IsNone(ret)

\* the texts of a list after lower-casing and trimming
KeysOf(items) == {lower_strip(items[i]) : i \in DOMAIN items}

\* how often a text occurs in a list, and where first, spelling aside
Occurrences(items, key) == Cardinality({i \in DOMAIN items : lower_strip(items[i]) = key})

FirstOccurrence(items, key) == SetMin({i \in DOMAIN items : lower_strip(items[i]) = key})

\* one text goes before another: it occurs more often, or as often and
\* earlier
GoesBefore(items, key, other) ==
    \/ Occurrences(items, key) > Occurrences(items, other)
    \/ /\ Occurrences(items, key) = Occurrences(items, other)
       /\ FirstOccurrence(items, key) < FirstOccurrence(items, other)

\* C35: _deduplicate_strengths_risks returns at most 5 texts, no two the same
\* after lower-casing and trimming, each in the spelling of its first
\* occurrence in the list, ordered by descending number of occurrences and,
\* at equal numbers, by first occurrence; a text left out goes after each
\* text returned.
C35_TopFiveByCountThenFirstOccurrence ==
    DeduplicateCallDone =>
        LET items == call.items
            out == Get(ret)
        IN  /\ Len(out) <= 5
            /\ Len(out) = (IF Cardinality(KeysOf(items)) < 5
                           THEN Cardinality(KeysOf(items)) ELSE 5)
            /\ \A i, j \in DOMAIN out :
                  i < j => /\ lower_strip(out[i]) # lower_strip(out[j])
                           /\ GoesBefore(items, lower_strip(out[i]), lower_strip(out[j]))
            /\ \A i \in DOMAIN out :
                  /\ lower_strip(out[i]) \in KeysOf(items)
                  /\ out[i] = items[FirstOccurrence(items, lower_strip(out[i]))]
            /\ \A key \in KeysOf(items) \ KeysOf(out) :
                  \A i \in DOMAIN out : GoesBefore(items, lower_strip(out[i]), key)

\* a list of 6 texts that differ, one of them spelled in two ways and two of
\* the texts returned occurring equally often: 5 are returned
C35_Witness ==
    /\ DeduplicateCallDone
    /\ Cardinality(KeysOf(call.items)) = 6
    /\ Len(Get(ret)) = 5
    /\ \E i, j \in DOMAIN call.items :
          call.items[i] # call.items[j] /\ lower_strip(call.items[i]) = lower_strip(call.items[j])
    /\ \E i, j \in DOMAIN Get(ret) :
          /\ i < j
          /\ Occurrences(call.items, lower_strip(Get(ret)[i]))
                = Occurrences(call.items, lower_strip(Get(ret)[j]))
    /\ \E i \in DOMAIN Get(ret) : Occurrences(call.items, lower_strip(Get(ret)[i])) >= 2

\* the reviews of a role in a list
ReviewsOfRole(reviews, role) == {i \in DOMAIN reviews : reviews[i].agent_role = role}

\* C36: a retry of a reviewer node runs both passes again: a node at pass 1
\* holds no memory of an earlier attempt, pass 1 has been invoked once in
\* each attempt begun, the review a node returns is made from the memory
\* returned with it, both in the attempt that returned, and once the update
\* is merged into a state that held no review of the role the memory stored
\* under the role is the one its review was made from; a node makes at most
\* 6 llm.invoke calls, 2 in each of at most 3 attempts.
C36_RetryRunsBothPasses ==
    \A n \in PanelNodes :
        /\ generations[n] <= 6
        /\ generations[n] <= 2 * attempt[n]
        /\ attempt[n] <= 3
        /\ pc[n] = "pass1" => IsNone(working_memory[n]) /\ calls[n] = attempt[n] - 1
        /\ pc[n] = "pass2" => Get(working_memory[n]).attempt = attempt[n]
        /\ ~IsNone(writes[n]) =>
              LET review == Get(Get(writes[n]).panel_reviews)[1]
                  memory == Get(Get(writes[n]).agent_working_memory)[NodeRole(n)]
              IN  review.memory_attempt = memory.attempt /\ memory.attempt = attempt[n]
        /\ \A i \in DOMAIN panel_reviews :
              (/\ panel_reviews[i].agent_role = NodeRole(n)
               /\ ReviewsOfRole(panel_reviews, NodeRole(n)) = {i})
                  => /\ NodeRole(n) \in DOMAIN agent_working_memory
                     /\ agent_working_memory[NodeRole(n)].attempt
                            = panel_reviews[i].memory_attempt

\* pass 2 of the HR node failed in the first two attempts and returned in the
\* third: 6 calls were made, and the review and the memory merged into the
\* state are those of the third attempt
C36_Witness ==
    /\ pc["hr_agent"] = "done"
    /\ attempt["hr_agent"] = 3
    /\ generations["hr_agent"] = 6
    /\ ReviewsOfRole(panel_reviews, "HR") # {}
    /\ \A i \in ReviewsOfRole(panel_reviews, "HR") : panel_reviews[i].memory_attempt = 3
    /\ agent_working_memory["HR"].attempt = 3

\* C37: a role's review and its working memory enter the run state together:
\* in every state of a run the roles that have a review in panel_reviews are
\* the keys of agent_working_memory, and a step in which an invocation of a
\* node fails changes no field of the run state.
C37_ReviewAndMemoryTogether ==
    [][/\ RolesIn(panel_reviews) = DOMAIN agent_working_memory
       /\ RolesIn(panel_reviews') = DOMAIN agent_working_memory'
       /\ failures' # failures
             => UNCHANGED <<rubric, panel_reviews, agent_working_memory, synthesis_out>>]_vars

\* the three reviews and the three memories are in the run state after a run
\* in which an attempt of the HR node had failed
C37_Witness ==
    /\ failures["hr_agent"] >= 1
    /\ RolesIn(panel_reviews) = {"HR", "Tech", "Compliance"}
    /\ DOMAIN agent_working_memory = {"HR", "Tech", "Compliance"}

\* the orders in which the three reviewer branches can complete
CompletionOrders ==
    {ord \in [1..3 -> PanelNodes] : \A i, j \in 1..3 : ord[i] = ord[j] => i = j}

\* agent_working_memory after the updates the reviewers returned are merged,
\* in an order, into the state of the fan-out, whose memory map is empty
MergedMemory(ord) ==
    ApplyWrites([StateRec EXCEPT !.panel_reviews = <<>>,
                                 !.agent_working_memory = EmptyMap],
                writes, ord).agent_working_memory

\* the memory each reviewer returned under its own role
ReturnedMemory ==
    [role \in {NodeRole(n) : n \in PanelNodes} |->
        LET n == CHOOSE m \in PanelNodes : NodeRole(m) = role
        IN  Get(Get(writes[n]).agent_working_memory)[role]]

\* C38: once the three reviewers have returned, merging their updates into
\* the empty map gives the same agent_working_memory in each of the 6
\* completion orders: the map with exactly the keys HR, Tech and Compliance,
\* each holding the memory its reviewer returned; it is the map the state
\* holds after the fan-in.
C38_MergeOrderIrrelevant ==
    (\A n \in PanelNodes : ~IsNone(writes[n])) =>
        /\ DOMAIN ReturnedMemory = {"HR", "Tech", "Compliance"}
        /\ \A ord \in CompletionOrders : MergedMemory(ord) = ReturnedMemory
        /\ AfterFanIn => agent_working_memory = ReturnedMemory

\* the fan-in has merged three memories, that of Tech made in a second
\* attempt, the Tech node having completed first or last
C38_Witness ==
    /\ active = {"validate_state"}
    /\ DOMAIN agent_working_memory = {"HR", "Tech", "Compliance"}
    /\ agent_working_memory["Tech"].attempt = 2
    /\ agent_working_memory["HR"].attempt = 1
    /\ \A n \in PanelNodes : ~IsNone(writes[n])

JobStatus == IF IsNone(job) THEN "none" ELSE Get(job).status

JobTerminal == JobStatus \in {"completed", "failed"}

\* the part of C39 about the order of the statuses and about result and
\* error: the status of a job moves from pending to processing and from
\* processing to completed or failed and to nothing else, a terminal status
\* and its result and error never change, a result is held only by a
\* completed job and an error only by a failed one, and the status response
\* shows a result only for a completed job.
C39_JobStatusMoves ==
    [][/\ JobStatus' # JobStatus =>
             \/ JobStatus = "none" /\ JobStatus' = "pending"
             \/ JobStatus = "pending" /\ JobStatus' = "processing"
             \/ JobStatus = "processing" /\ JobStatus' \in {"completed", "failed"}
       /\ JobTerminal => job' = job
       /\ ~IsNone(job') =>
             /\ ~IsNone(Get(job').result) => Get(job').status = "completed"
             /\ ~IsNone(Get(job').error) => Get(job').status = "failed"
             /\ ~IsNone(get_job_status(Get(job')).result) => Get(job').status = "completed"]_vars

\* the handlers and the workflow are not stopped for ever: the background
\* task runs to its end once it is added
SpecJobFair == SpecJob /\ WF_vars(NextJob)

\* the part of C39 about termination: the job reaches a terminal status
C39_JobEventuallyTerminal == <>JobTerminal

\* the run of the workflow this job started went through its graph to the
\* end and the synthesis wrote its outputs: the run that has a result
WorkflowRanThrough == graph_done /\ ~IsNone(synthesis_out)

\* C39 (as stated; the code does otherwise): a job whose workflow run went
\* through to its result ends completed, holding a result and no error.
C39_FinishedRunCompletesJob ==
    (JobTerminal /\ WorkflowRanThrough) =>
        /\ Get(job).status = "completed"
        /\ ~IsNone(Get(job).result)
        /\ IsNone(Get(job).error)

====
